---------------------------- MODULE Spec2Model ----------------------------
(***************************************************************************)
(* Wallet Authentication Backend (WAB): the Shamir share custody engine    *)
(* (ShareService), its rate limiter and access log, and the ShareController *)
(* handlers that drive them.                                               *)
(*                                                                         *)
(* Tables are sets or bags of rows, a string      is the sequence of its   *)
(* UTF-16 code units, a Buffer the sequence of its bytes, a hex string the *)
(* sequence of its one-character strings, and time is counted in minutes.  *)
(***************************************************************************)
EXTENDS Integers, Sequences, FiniteSets, Bags, TLC

VARIABLES
    SERVER_ENCRYPTION_KEY,  \* process.env.SHARE_ENCRYPTION_KEY || "" (hex characters)
    users,                  \* rows of table users
    nextUserId,             \* the auto-increment of users.id
    auth_methods,           \* rows of table auth_methods
    nextAuthMethodId,       \* the auto-increment of auth_methods.id
    payments,               \* rows of table payments
    wallet,                 \* the funding transactions wallet.createAction has made
    shamir_shares,          \* rows of table shamir_shares
    nextShareId,            \* the auto-increment of shamir_shares.id
    call,                   \* per caller: the ShareService call in progress
    result,                 \* per caller: what the last finished call returned
    lastWrite,              \* per user: the plaintext and update count of the live share
    share_access_log,       \* rows of table share_access_log (without id), as a bag
    now,                    \* the clock, in minutes
    limitResult,            \* what isRateLimited answered, if it ran since the last change
    response,               \* what the last ShareController request answered
    rateLimitMap,           \* AccountDeletionController's rateLimitMap, per config
    verifications,          \* the phone numbers Twilio Verify holds a pending code for
    deletionResponse,       \* what the last AccountDeletionController request answered
    admitted,               \* per config: the times at which checkRateLimit allowed an attempt
    token,                  \* the wallet's UMP token
    secrets,                \* the factors and the root primary key the wallet's owner holds
    recovered,              \* what the last key recovery returned
    otpStorage,             \* the otpStorage of one DevConsoleAuthMethod instance, per key
    console,                \* per key: the code the last startAuth printed, and its uses
    authResult              \* what the last DevConsole startAuth or completeAuth answered

vars == <<SERVER_ENCRYPTION_KEY, users, nextUserId, auth_methods, nextAuthMethodId,
          payments, wallet, shamir_shares, nextShareId, call, result,
          lastWrite, share_access_log, now, limitResult, response,
          rateLimitMap, verifications, deletionResponse, admitted,
          token, secrets, recovered, otpStorage, console, authResult>>

\* the state of the account deletion endpoints and of the wallet's token
deletionUnchanged == UNCHANGED <<rateLimitMap, verifications, deletionResponse, admitted>>
tokenUnchanged == UNCHANGED <<token, secrets, recovered>>
devUnchanged == UNCHANGED <<otpStorage, console, authResult>>

---------------------------------------------------------------------------
(* Bounds of the model *)

\* shamir_shares.id values handed out in one behaviour
MaxShareId == 3
\* the highest shareVersion an update may write
MaxVersion == 3
\* rows of share_access_log in one behaviour of the rate-limit specification
MaxLog == 6
\* rows of share_access_log in one behaviour of the controller specification
MaxRequests == 9
\* clock steps in one behaviour of the rate-limit specification
MaxTicks == 2

\* the highest users.id the account controllers hand out
MaxUsers == 2

\* the rows of the access log in the runs with the deletion of users
MaxLogRows == 4

\* the rows of the access log in the runs that follow the one-time password
MaxOtpRequests == 6
\* the clock of the deletion endpoints stops after MaxDeletionTicks steps
MaxDeletionTicks == 2
\* the rows of the access log in the runs that reach the limits
MaxLimitRequests == 8
\* the width of the keys of the wallet, in bits
KeyBits == 2

UserIds == {1, 2}
Callers == {"A", "B"}
Null == "null"

---------------------------------------------------------------------------
(* Bytes, hex strings and UTF-8, as Node's Buffer computes them *)

RECURSIVE SumSeq(_)
SumSeq(s) == IF s = <<>> THEN 0 ELSE Head(s) + SumSeq(Tail(s))

RECURSIVE Repeat(_, _)
Repeat(s, n) == IF n = 0 THEN <<>> ELSE s \o Repeat(s, n - 1)

RECURSIVE XorByte(_, _)
XorByte(a, b) ==
    IF a = 0 /\ b = 0 THEN 0
    ELSE (((a % 2) + (b % 2)) % 2) + 2 * XorByte(a \div 2, b \div 2)

HexDigits == <<"0", "1", "2", "3", "4", "5", "6", "7",
               "8", "9", "a", "b", "c", "d", "e", "f">>
UpperHexDigits == <<"0", "1", "2", "3", "4", "5", "6", "7",
                    "8", "9", "A", "B", "C", "D", "E", "F">>

\* the value of a hex character, -1 when it is none
HexVal(c) ==
    IF \E i \in 1..16 : HexDigits[i] = c
    THEN (CHOOSE i \in 1..16 : HexDigits[i] = c) - 1
    ELSE IF \E i \in 1..16 : UpperHexDigits[i] = c
    THEN (CHOOSE i \in 1..16 : UpperHexDigits[i] = c) - 1
    ELSE -1

\* buf.toString("hex")
RECURSIVE toHex(_)
toHex(bytes) ==
    IF bytes = <<>> THEN <<>>
    ELSE <<HexDigits[(Head(bytes) \div 16) + 1], HexDigits[(Head(bytes) % 16) + 1]>>
         \o toHex(Tail(bytes))

\* Buffer.from(str, "hex"): whole pairs of hex characters, up to the first
\* pair that is not hex; an odd last character is dropped
RECURSIVE fromHex(_)
fromHex(str) ==
    IF Len(str) < 2 THEN <<>>
    ELSE IF HexVal(str[1]) < 0 \/ HexVal(str[2]) < 0 THEN <<>>
    ELSE <<16 * HexVal(str[1]) + HexVal(str[2])>> \o fromHex(Tail(Tail(str)))

IsHighSurrogate(cu) == cu >= 55296 /\ cu <= 56319
IsLowSurrogate(cu) == cu >= 56320 /\ cu <= 57343
ReplacementChar == 65533

\* the UTF-8 bytes of a code point
Utf8OfCodePoint(cp) ==
    IF cp < 128 THEN <<cp>>
    ELSE IF cp < 2048 THEN <<192 + (cp \div 64), 128 + (cp % 64)>>
    ELSE IF cp < 65536
    THEN <<224 + (cp \div 4096), 128 + ((cp \div 64) % 64), 128 + (cp % 64)>>
    ELSE <<240 + (cp \div 262144), 128 + ((cp \div 4096) % 64),
           128 + ((cp \div 64) % 64), 128 + (cp % 64)>>

\* Buffer.from(str, "utf8") / cipher.update(str, "utf8"): a surrogate pair is
\* one code point, a surrogate with no partner is written as U+FFFD
RECURSIVE utf8Encode(_)
utf8Encode(str) ==
    IF str = <<>> THEN <<>>
    ELSE IF IsHighSurrogate(str[1]) /\ Len(str) >= 2 /\ IsLowSurrogate(str[2])
    THEN Utf8OfCodePoint(65536 + (str[1] - 55296) * 1024 + (str[2] - 56320))
         \o utf8Encode(Tail(Tail(str)))
    ELSE IF IsHighSurrogate(str[1]) \/ IsLowSurrogate(str[1])
    THEN Utf8OfCodePoint(ReplacementChar) \o utf8Encode(Tail(str))
    ELSE Utf8OfCodePoint(str[1]) \o utf8Encode(Tail(str))

IsCont(b) == b >= 128 /\ b <= 191

\* the UTF-16 code units of a code point
Utf16OfCodePoint(cp) ==
    IF cp < 65536 THEN <<cp>>
    ELSE <<55296 + ((cp - 65536) \div 1024), 56320 + ((cp - 65536) % 1024)>>

\* buf.toString("utf8"): bytes that are no UTF-8 sequence become U+FFFD
RECURSIVE utf8Decode(_)
utf8Decode(b) ==
    IF b = <<>> THEN <<>>
    ELSE IF b[1] < 128 THEN <<b[1]>> \o utf8Decode(Tail(b))
    ELSE IF b[1] >= 194 /\ b[1] <= 223 /\ Len(b) >= 2 /\ IsCont(b[2])
    THEN <<(b[1] - 192) * 64 + (b[2] - 128)>> \o utf8Decode(SubSeq(b, 3, Len(b)))
    ELSE IF b[1] >= 224 /\ b[1] <= 239 /\ Len(b) >= 3 /\ IsCont(b[2]) /\ IsCont(b[3])
            /\ (b[1] - 224) * 4096 + (b[2] - 128) * 64 + (b[3] - 128) >= 2048
            /\ ~IsHighSurrogate((b[1] - 224) * 4096 + (b[2] - 128) * 64 + (b[3] - 128))
            /\ ~IsLowSurrogate((b[1] - 224) * 4096 + (b[2] - 128) * 64 + (b[3] - 128))
    THEN <<(b[1] - 224) * 4096 + (b[2] - 128) * 64 + (b[3] - 128)>>
         \o utf8Decode(SubSeq(b, 4, Len(b)))
    ELSE IF b[1] >= 240 /\ b[1] <= 244 /\ Len(b) >= 4
            /\ IsCont(b[2]) /\ IsCont(b[3]) /\ IsCont(b[4])
            /\ (b[1] - 240) * 262144 + (b[2] - 128) * 4096
               + (b[3] - 128) * 64 + (b[4] - 128) >= 65536
            /\ (b[1] - 240) * 262144 + (b[2] - 128) * 4096
               + (b[3] - 128) * 64 + (b[4] - 128) <= 1114111
    THEN Utf16OfCodePoint((b[1] - 240) * 262144 + (b[2] - 128) * 4096
                          + (b[3] - 128) * 64 + (b[4] - 128))
         \o utf8Decode(SubSeq(b, 5, Len(b)))
    ELSE <<ReplacementChar>> \o utf8Decode(Tail(b))

---------------------------------------------------------------------------
(* Inputs *)

\* "1.a.2.b", "1.c.2.d" and "1.\uD800.2.b" (an unpaired surrogate in the second
\* part); each has the four dot-separated parts the controller asks for
ShareInputs == { <<49, 46, 97, 46, 50, 46, 98>>,
                 <<49, 46, 99, 46, 50, 46, 100>>,
                 <<49, 46, 55296, 46, 50, 46, 98>> }

\* values randomBytes(12) may return
NonceInputs == { Repeat(<<0>>, 12), <<1>> \o Repeat(<<0>>, 11) }

\* the test suite's key, a key one byte short, and no key
TestKey == Repeat(<<"0", "1", "2", "3", "4", "5", "6", "7",
                    "8", "9", "a", "b", "c", "d", "e", "f">>, 4)
KeyInputs == { TestKey, SubSeq(TestKey, 1, 62), <<>> }

---------------------------------------------------------------------------
(* ShareService: encryption *)

Ok(v) == [ok |-> TRUE, error |-> "", value |-> v]
Err(e) == [ok |-> FALSE, error |-> e, value |-> <<>>]

\* a variant of getEncryptionKey that tests only that the key is set
getEncryptionKey_anyLength(envKey) ==
    IF envKey = <<>> THEN Err("MissingEncryptionKey") ELSE Ok(fromHex(envKey))


getEncryptionKey(envKey) ==
    LET keyBuffer == fromHex(envKey) IN
    IF envKey = <<>> THEN Err("MissingEncryptionKey")
    ELSE IF Len(keyBuffer) # 32 THEN Err("InvalidKeyLength")
    ELSE Ok(keyBuffer)

\* AES-256 in counter mode, abstractly: a key stream that the key and the
\* nonce determine, combined with the text byte by byte
Mix(bytes) == SumSeq([i \in 1..Len(bytes) |-> i * bytes[i]]) % 256
KeyStream(key, nonce, n) ==
    LET seed == Mix(key) + 31 * Mix(nonce) + 5 IN
    [i \in 1..n |-> (seed + 17 * i) % 256]
XorBytes(a, ks) == [i \in 1..Len(a) |-> XorByte(a[i], ks[i])]

\* the GCM authentication tag, abstractly: 16 bytes that the key, the nonce
\* and the ciphertext determine
GcmTag(key, nonce, ct) ==
    LET seed == Mix(key) + 3 * Mix(nonce) + 7 * Mix(ct) + 11 * Len(ct) IN
    [j \in 1..16 |-> (seed + j) % 256]

\* the tag lengths setAuthTag accepts for GCM
GcmTagLengths == {4, 8, 12, 13, 14, 15, 16}

encryptShare(envKey, share, nonce) ==
    LET key == getEncryptionKey(envKey) IN
    IF ~key.ok THEN key
    ELSE LET text == utf8Encode(share)
             encrypted == XorBytes(text, KeyStream(key.value, nonce, Len(text)))
         IN  Ok([encrypted |-> encrypted,
                 nonce     |-> toHex(nonce),
                 tag       |-> toHex(GcmTag(key.value, nonce, encrypted))])

decryptShare(envKey, encrypted, nonce, tag) ==
    LET key == getEncryptionKey(envKey)
        nonceBuffer == fromHex(nonce)
        tagBuffer == fromHex(tag)
    IN
    IF ~key.ok THEN key
    ELSE IF nonceBuffer = <<>> THEN Err("InvalidIV")
    ELSE IF Len(tagBuffer) \notin GcmTagLengths THEN Err("InvalidAuthTag")
    ELSE IF SubSeq(GcmTag(key.value, nonceBuffer, encrypted), 1, Len(tagBuffer)) # tagBuffer
    THEN Err("AuthenticationFailure")
    ELSE Ok(utf8Decode(XorBytes(encrypted,
                                KeyStream(key.value, nonceBuffer, Len(encrypted)))))

\* encryptShare and decryptShare over the inputs of the model, computed once;
\* an argument outside the table is computed directly
EncryptTable ==
    [k \in KeyInputs, sh \in ShareInputs, n \in NonceInputs |-> encryptShare(k, sh, n)]
SealedInputs ==
    {EncryptTable[x].value : x \in {y \in DOMAIN EncryptTable : EncryptTable[y].ok}}
DecryptTable ==
    [k \in KeyInputs, v \in SealedInputs |-> decryptShare(k, v.encrypted, v.nonce, v.tag)]

encryptShareOf(envKey, share, nonce) ==
    IF <<envKey, share, nonce>> \in DOMAIN EncryptTable
    THEN EncryptTable[envKey, share, nonce]
    ELSE encryptShare(envKey, share, nonce)

decryptShareOf(envKey, encrypted, nonce, tag) ==
    LET v == [encrypted |-> encrypted, nonce |-> nonce, tag |-> tag] IN
    IF <<envKey, v>> \in DOMAIN DecryptTable
    THEN DecryptTable[envKey, v]
    ELSE decryptShare(envKey, encrypted, nonce, tag)

---------------------------------------------------------------------------
(* Tables shamir_shares and users *)

\* .first() of a query: the matching row with the lowest id, as a set of at
\* most one row
First(rows) ==
    IF rows = {} THEN {} ELSE {CHOOSE r \in rows : \A q \in rows : r.id <= q.id}

\* variants of the operators below with one safeguard of the code removed
getShareByUserId_byId(rows, userId) == First({r \in rows : r.id = userId})
getShareByUserId_anyUser(rows, userId) == First(rows)
insertShare_notUnique(rows, userRows, row) ==
    IF row.userId \notin userRows THEN [ok |-> FALSE, error |-> "ForeignKeyViolation", value |-> <<>>]
    ELSE [ok |-> TRUE, error |-> "", value |-> rows \cup {row}]
updateShareRows_sameVersion(rows, userId, enc, version) ==
    {IF r.userId = userId
     THEN [r EXCEPT !.shareEncrypted = enc.encrypted, !.shareNonce = enc.nonce,
                    !.shareTag = enc.tag]
     ELSE r : r \in rows}
deleteShare_byId(rows, userId) == {r \in rows : r.id # userId}

getShareByUserId(rows, userId) == First({r \in rows : r.userId = userId})

\* db("shamir_shares").insert(row): userId references users.id and is unique
insertShare(rows, userRows, row) ==
    IF row.userId \notin userRows THEN Err("ForeignKeyViolation")
    ELSE IF \E r \in rows : r.userId = row.userId THEN Err("UniqueViolation")
    ELSE Ok(rows \cup {row})

\* db("shamir_shares").where({ userId }).update(fields)
updateShareRows(rows, userId, enc, version) ==
    {IF r.userId = userId
     THEN [r EXCEPT !.shareEncrypted = enc.encrypted, !.shareNonce = enc.nonce,
                    !.shareTag = enc.tag, !.shareVersion = version]
     ELSE r : r \in rows}

\* ShareService.deleteShare: db("shamir_shares").where({ userId }).del()
deleteShare(rows, userId) == {r \in rows : r.userId # userId}

\* ShareService.retrieveDecryptedShare
retrieveDecryptedShare(rows, envKey, userId) ==
    LET shareEntity == getShareByUserId(rows, userId) IN
    IF shareEntity = {} THEN [found |-> FALSE, error |-> "", share |-> <<>>]
    ELSE LET e == CHOOSE r \in shareEntity : TRUE
             d == decryptShareOf(envKey, e.shareEncrypted, e.shareNonce, e.shareTag)
         IN  [found |-> d.ok, error |-> d.error, share |-> d.value]

\* the ids of the rows of users
userIds(userRows) == {u.id : u \in userRows}

HasShare(userId) == \E r \in shamir_shares : r.userId = userId

---------------------------------------------------------------------------
(* ShareService calls, one step per database round trip *)

Idle == [pc |-> "idle", userId |-> 0, share |-> <<>>, aux |-> 0]
NoWrite == [live |-> FALSE, share |-> <<>>, updates |-> 0]
NoResult == [op |-> "none", userId |-> 0, existed |-> FALSE, error |-> "",
             version |-> 0, found |-> FALSE, share |-> <<>>]

Finish(c, res) ==
    /\ call' = [call EXCEPT ![c] = Idle]
    /\ result' = [result EXCEPT ![c] = res]

Failed(op, userId, existed, e) ==
    [NoResult EXCEPT !.op = op, !.userId = userId, !.existed = existed, !.error = e]

Returned(op, userId, existed, row) ==
    [NoResult EXCEPT !.op = op, !.userId = userId, !.existed = existed,
                     !.version = row.shareVersion, !.found = TRUE]

shareUnchanged == UNCHANGED <<SERVER_ENCRYPTION_KEY, users, shamir_shares,
                              nextShareId, lastWrite>>
restUnchanged ==
    /\ UNCHANGED <<nextUserId, auth_methods, nextAuthMethodId, payments,
                   wallet, share_access_log, now, limitResult, response>>
    /\ deletionUnchanged
    /\ tokenUnchanged
    /\ devUnchanged

\* storeShare, lines 110-113: the existence check
storeShare_check(c, userId, share) ==
    /\ call[c].pc = "idle"
    /\ IF getShareByUserId(shamir_shares, userId) # {}
       THEN Finish(c, Failed("store", userId, TRUE, "DuplicateShare"))
       ELSE /\ call' = [call EXCEPT ![c] = [pc |-> "store_insert", userId |-> userId,
                                            share |-> share, aux |-> 0]]
            /\ UNCHANGED result
    /\ shareUnchanged
    /\ restUnchanged

\* storeShare, lines 115-123: encrypt, then insert
storeShare_insert(c, nonce) ==
    /\ call[c].pc = "store_insert"
    /\ nextShareId <= MaxShareId
    /\   LET u == call[c].userId
             enc == encryptShareOf(SERVER_ENCRYPTION_KEY, call[c].share, nonce)
         IN
         IF ~enc.ok
         THEN /\ Finish(c, Failed("store", u, FALSE, enc.error))
              /\ UNCHANGED <<shamir_shares, nextShareId, lastWrite>>
         ELSE LET ins == insertShare(shamir_shares, userIds(users),
                             [id |-> nextShareId, userId |-> u,
                              shareEncrypted |-> enc.value.encrypted,
                              shareNonce |-> enc.value.nonce,
                              shareTag |-> enc.value.tag,
                              shareVersion |-> 1])
              IN
              IF ~ins.ok
              THEN /\ Finish(c, Failed("store", u, FALSE, ins.error))
                   /\ UNCHANGED <<shamir_shares, nextShareId, lastWrite>>
              ELSE /\ shamir_shares' = ins.value
                   /\ nextShareId' = nextShareId + 1
                   /\ lastWrite' = [lastWrite EXCEPT ![u] =
                          [live |-> TRUE, share |-> call[c].share, updates |-> 0]]
                   /\ call' = [call EXCEPT ![c].pc = "store_reread",
                                           ![c].aux = nextShareId]
                   /\ UNCHANGED result
    /\ UNCHANGED <<SERVER_ENCRYPTION_KEY, users>>
    /\ restUnchanged

\* storeShare, lines 125-133: read the inserted row back by id
storeShare_reread(c) ==
    /\ call[c].pc = "store_reread"
    /\ LET got == First({r \in shamir_shares : r.id = call[c].aux}) IN
       IF got = {}
       THEN Finish(c, Failed("store", call[c].userId, FALSE, "Failed to store share"))
       ELSE Finish(c, Returned("store", call[c].userId, FALSE, CHOOSE r \in got : TRUE))
    /\ shareUnchanged
    /\ restUnchanged

\* updateShare, lines 166-169: the existence check
updateShare_check(c, userId, newShare) ==
    /\ call[c].pc = "idle"
    /\ LET existing == getShareByUserId(shamir_shares, userId) IN
       IF existing = {}
       THEN Finish(c, Failed("update", userId, FALSE, "NoExistingShare"))
       ELSE /\ (CHOOSE r \in existing : TRUE).shareVersion < MaxVersion
            /\ call' = [call EXCEPT ![c] =
                   [pc |-> "update_write", userId |-> userId, share |-> newShare,
                    aux |-> (CHOOSE r \in existing : TRUE).shareVersion]]
            /\ UNCHANGED result
    /\ shareUnchanged
    /\ restUnchanged

\* updateShare, lines 171-181: encrypt, then overwrite the user's row with
\* the version read by the check plus one
updateShare_write(c, nonce) ==
    /\ call[c].pc = "update_write"
    /\   LET u == call[c].userId
             enc == encryptShareOf(SERVER_ENCRYPTION_KEY, call[c].share, nonce)
         IN
         IF ~enc.ok
         THEN /\ Finish(c, Failed("update", u, TRUE, enc.error))
              /\ UNCHANGED <<shamir_shares, lastWrite>>
         ELSE /\ shamir_shares' =
                     updateShareRows(shamir_shares, u, enc.value, call[c].aux + 1)
              /\ lastWrite' = IF HasShare(u)
                              THEN [lastWrite EXCEPT ![u].share = call[c].share,
                                                     ![u].updates = @ + 1]
                              ELSE lastWrite
              /\ call' = [call EXCEPT ![c].pc = "update_reread"]
              /\ UNCHANGED result
    /\ UNCHANGED <<SERVER_ENCRYPTION_KEY, users, nextShareId>>
    /\ restUnchanged

\* updateShare, lines 183-188: read the user's row back
updateShare_reread(c) ==
    /\ call[c].pc = "update_reread"
    /\ LET updated == getShareByUserId(shamir_shares, call[c].userId) IN
       IF updated = {}
       THEN Finish(c, Failed("update", call[c].userId, TRUE, "Failed to update share"))
       ELSE Finish(c, Returned("update", call[c].userId, TRUE, CHOOSE r \in updated : TRUE))
    /\ shareUnchanged
    /\ restUnchanged

\* a call of retrieveDecryptedShare: one query, then the decryption
RetrieveShare(c, userId) ==
    /\ call[c].pc = "idle"
    /\ LET got == retrieveDecryptedShare(shamir_shares, SERVER_ENCRYPTION_KEY, userId) IN
       result' = [result EXCEPT ![c] =
                     [NoResult EXCEPT !.op = "retrieve", !.userId = userId,
                                      !.existed = HasShare(userId), !.error = got.error,
                                      !.found = got.found, !.share = got.share]]
    /\ UNCHANGED call
    /\ shareUnchanged
    /\ restUnchanged

\* a call of deleteShare
DeleteShare(c, userId) ==
    /\ call[c].pc = "idle"
    /\ shamir_shares' = deleteShare(shamir_shares, userId)
    /\ lastWrite' = [lastWrite EXCEPT ![userId] = NoWrite]
    /\ result' = [result EXCEPT ![c] =
                     [NoResult EXCEPT !.op = "delete", !.userId = userId,
                                      !.existed = HasShare(userId)]]
    /\ UNCHANGED <<SERVER_ENCRYPTION_KEY, users, nextShareId, call>>
    /\ restUnchanged

NoLimit == [asked |-> FALSE, limited |-> FALSE, retryAfterMinutes |-> 0]

\* the rows of the tables that reference users.id with onDelete CASCADE, once
\* user userId is deleted
cascadeShares(rows, userId) == {r \in rows : r.userId # userId}
\* a variant of setNullAuthMethods: the onDelete CASCADE of the initial
\* migration
setNullAuthMethods_cascade(rows, userId) == {r \in rows : r.userId # userId}

\* auth_methods.userId references users.id with onDelete SET NULL (0 stands
\* for NULL)
setNullAuthMethods(rows, userId) ==
    {IF r.userId = userId THEN [r EXCEPT !.userId = 0] ELSE r : r \in rows}
\* payments.userId references users.id with onDelete SET NULL
setNullPayments(rows, userId) ==
    {IF r.userId = userId THEN [r EXCEPT !.userId = 0] ELSE r : r \in rows}
\* a variant of cascadeLog: the rows of the log outlive the user
cascadeLog_keep(log, userId) == log
\* share_access_log.userId references users.id with onDelete CASCADE
cascadeLog(log, userId) == [r \in {e \in DOMAIN log : e.userId # userId} |-> log[r]]

\* UserService.deleteUserByPresentationKey / deleteUserByUserIdHash: the user
\* row goes, and with it the share and the log rows that reference it
DeleteUser(userId) ==
    /\ userId \in userIds(users)
    /\ users' = {u \in users : u.id # userId}
    /\ auth_methods' = setNullAuthMethods(auth_methods, userId)
    /\ payments' = setNullPayments(payments, userId)
    /\ shamir_shares' = cascadeShares(shamir_shares, userId)
    /\ share_access_log' = cascadeLog(share_access_log, userId)
    /\ lastWrite' = [lastWrite EXCEPT ![userId] = NoWrite]
    /\ limitResult' = NoLimit
    /\ UNCHANGED <<SERVER_ENCRYPTION_KEY, nextUserId, nextAuthMethodId, wallet,
                   nextShareId, call, result, now, response>>
    /\ deletionUnchanged
    /\ tokenUnchanged
    /\ devUnchanged

---------------------------------------------------------------------------
(* The access log and the rate limiter *)

Actions == {"store", "retrieve", "update"}
IpAddresses == {"ipA", "ipB"}

RATE_LIMITS ==
    [retrieve |-> [maxAttempts |-> 5, windowMinutes |-> 15, lockoutMinutes |-> 30],
     store    |-> [maxAttempts |-> 3, windowMinutes |-> 60, lockoutMinutes |-> 60],
     update   |-> [maxAttempts |-> 3, windowMinutes |-> 30, lockoutMinutes |-> 60]]

\* a variant of logAccess that keeps one row per user and action
logAccess_keepLatest(log, userId, ipAddress, action, success, failureReason, at) ==
    [r \in {e \in DOMAIN log : e.userId # userId \/ e.action # action} |-> log[r]]
    (+) SetToBag({[userId |-> userId, ipAddress |-> ipAddress, action |-> action,
                   success |-> success,
                   failureReason |-> IF failureReason = "" THEN Null ELSE failureReason,
                   timestamp |-> at]})

\* ShareService.logAccess: one more row, stamped by the database clock;
\* failureReason || null
logAccess(log, userId, ipAddress, action, success, failureReason, at) ==
    log (+) SetToBag({[userId |-> userId, ipAddress |-> ipAddress, action |-> action,
                       success |-> success,
                       failureReason |-> IF failureReason = "" THEN Null ELSE failureReason,
                       timestamp |-> at]})

\* variants of the operators below with one safeguard of the code changed
userAttempts_anyOutcome(log, userId, action, windowStart) ==
    [r \in {e \in DOMAIN log : /\ e.userId = userId
                               /\ e.action = action
                               /\ e.timestamp >= windowStart} |-> log[r]]
ipMaxAttempts_threefold(config) == config.maxAttempts * 3

\* a variant that counts the failed attempts of every age
userAttempts_anyAge(log, userId, action, windowStart) ==
    [r \in {e \in DOMAIN log : /\ e.userId = userId
                               /\ e.action = action
                               /\ e.success = FALSE} |-> log[r]]

\* the failed attempts of the user within the window
userAttempts(log, userId, action, windowStart) ==
    [r \in {e \in DOMAIN log : /\ e.userId = userId
                               /\ e.action = action
                               /\ e.success = FALSE
                               /\ e.timestamp >= windowStart} |-> log[r]]

\* the failed attempts from the address within the window
ipAttempts(log, ipAddress, action, windowStart) ==
    [r \in {e \in DOMAIN log : /\ e.ipAddress = ipAddress
                               /\ e.action = action
                               /\ e.success = FALSE
                               /\ e.timestamp >= windowStart} |-> log[r]]

\* "IP limit is 2x the user limit"
ipMaxAttempts(config) == config.maxAttempts * 2

\* orderBy("timestamp", "asc").first() of a non-empty bag of rows
oldestAttempt(attempts) ==
    CHOOSE r \in DOMAIN attempts : \A q \in DOMAIN attempts : r.timestamp <= q.timestamp

\* ShareService.isRateLimited with the clock at `at`; an answer without
\* retryAfterMinutes carries 0
isRateLimited(log, userId, ipAddress, action, at) ==
    IF action \notin DOMAIN RATE_LIMITS THEN [limited |-> FALSE, retryAfterMinutes |-> 0]
    ELSE
    LET config == RATE_LIMITS[action]
        windowStart == at - config.windowMinutes
        failedAttempts == userAttempts(log, userId, action, windowStart)
        lockoutEnd == oldestAttempt(failedAttempts).timestamp + config.lockoutMinutes
    IN  IF /\ BagCardinality(failedAttempts) >= config.maxAttempts
           /\ lockoutEnd > at
        THEN [limited |-> TRUE, retryAfterMinutes |-> lockoutEnd - at]
        ELSE IF BagCardinality(ipAttempts(log, ipAddress, action, windowStart))
                    >= ipMaxAttempts(config)
        THEN [limited |-> TRUE, retryAfterMinutes |-> config.lockoutMinutes]
        ELSE [limited |-> FALSE, retryAfterMinutes |-> 0]

---------------------------------------------------------------------------
(* The custody engine: one caller, whose calls run one after another *)

NoResponse == [action |-> "none", status |-> 0, userId |-> 0, shareB |-> <<>>,
               otp |-> "none", retryAfterMinutes |-> 0]

\* the phone numbers of the clients of the deletion endpoints
PhoneNumbers == {"+18006382638", "+15550001"}

\* rateLimitMap.get(key) of a key the map does not hold
NoRateLimitData == [present |-> FALSE, count |-> 0, lastReset |-> 0]

\* no deletionKey in the body
NoDeletionKey == [prefix |-> "", at |-> 0, random |-> 0]

NoDeletionResponse ==
    [action |-> "none", status |-> 0, success |-> "absent",
     deletionKey |-> NoDeletionKey, message |-> "", config |-> ""]

\* no token published yet, nothing recovered yet
NoCiphertext == [key |-> 0, plaintext |-> 0, nonce |-> 0]
NoHash == [sha256 |-> 0]
NoToken ==
    [built |-> FALSE,
     passwordPresentationPrimary |-> NoCiphertext,
     passwordRecoveryPrimary |-> NoCiphertext,
     presentationRecoveryPrimary |-> NoCiphertext,
     passwordPrimaryPrivileged |-> NoCiphertext,
     presentationRecoveryPrivileged |-> NoCiphertext,
     presentationHash |-> NoHash, recoveryHash |-> NoHash]
NoSecrets == [presentationKey |-> 0, passwordKey |-> 0, recoveryKey |-> 0,
              rootPrimaryKey |-> 0, rootPrivilegedKey |-> 0]
NoRecovery == [mode |-> "none", factorA |-> 0, factorB |-> 0, ok |-> FALSE,
               rootPrimaryKey |-> 0, error |-> "none"]

\* the presentation keys of the clients
PresentationKeys == {"k1", "k2"}

\* otpStorage.get(key) of a key without an entry, a key for which nothing
\* was printed, and no answer yet
NoOtp == [present |-> FALSE, otp |-> "", expiresAt |-> 0, identifier |-> ""]
NoCode == [printed |-> FALSE, otp |-> "", at |-> 0, identifier |-> "", successes |-> 0]
NoAuthResult == [op |-> "none", success |-> FALSE, message |-> "",
                 presentationKey |-> "", at |-> 0]
\* new Map()
NewOtpStorage == [k \in PresentationKeys |-> NoOtp]

\* the state of the deletion endpoints and of the wallet when the server starts
InitSide ==
    /\ rateLimitMap = [c \in PhoneNumbers |-> NoRateLimitData]
    /\ verifications = {}
    /\ deletionResponse = NoDeletionResponse
    /\ admitted = [c \in PhoneNumbers |-> <<>>]
    /\ token = NoToken
    /\ secrets = NoSecrets
    /\ recovered = NoRecovery
    /\ otpStorage = NewOtpStorage
    /\ console = [k \in PresentationKeys |-> NoCode]
    /\ authResult = NoAuthResult

Init ==
    /\ SERVER_ENCRYPTION_KEY \in KeyInputs
    /\ users = {[id |-> u, userIdHash |-> Null] : u \in UserIds}
    /\ nextUserId = Cardinality(UserIds) + 1
    /\ auth_methods = {}
    /\ nextAuthMethodId = 1
    /\ payments = {}
    /\ wallet = {}
    /\ shamir_shares = {}
    /\ nextShareId = 1
    /\ call = [c \in Callers |-> Idle]
    /\ result = [c \in Callers |-> NoResult]
    /\ lastWrite = [u \in UserIds |-> NoWrite]
    /\ share_access_log = EmptyBag
    /\ now = 0
    /\ limitResult = NoLimit
    /\ response = NoResponse
    /\ InitSide

AllIdle == \A c \in Callers : call[c].pc = "idle"

Next ==
    \/ \E u \in UserIds, s \in ShareInputs : storeShare_check("A", u, s)
    \/ \E n \in NonceInputs : storeShare_insert("A", n)
    \/ storeShare_reread("A")
    \/ \E u \in UserIds, s \in ShareInputs : updateShare_check("A", u, s)
    \/ \E n \in NonceInputs : updateShare_write("A", n)
    \/ updateShare_reread("A")
    \/ \E u \in UserIds : RetrieveShare("A", u)
    \/ \E u \in UserIds : DeleteShare("A", u)
    \/ \E u \in UserIds : AllIdle /\ DeleteUser(u)

Spec == Init /\ [][Next]_vars

---------------------------------------------------------------------------
(* The custody engine across restarts of the server: the key is read from  *)
(* the environment when the module is loaded (line 39), the rows of the    *)
(* database stay. A restart ends the process, and with it the calls in     *)
(* progress and their results.                                             *)

Restart(envKey) ==
    /\ SERVER_ENCRYPTION_KEY' = envKey
    /\ call' = [c \in Callers |-> Idle]
    /\ result' = [c \in Callers |-> NoResult]
    /\ UNCHANGED <<users, shamir_shares, nextShareId, lastWrite>>
    /\ restUnchanged

\* one share and one nonce: what is stored does not matter to the key
KeyShareInputs == { <<49, 46, 97, 46, 50, 46, 98>> }
KeyNonceInputs == { Repeat(<<0>>, 12) }

NextKey ==
    \/ \E u \in UserIds, s \in KeyShareInputs : storeShare_check("A", u, s)
    \/ \E n \in KeyNonceInputs : storeShare_insert("A", n)
    \/ storeShare_reread("A")
    \/ \E u \in UserIds, s \in KeyShareInputs : updateShare_check("A", u, s)
    \/ \E n \in KeyNonceInputs : updateShare_write("A", n)
    \/ updateShare_reread("A")
    \/ \E u \in UserIds : RetrieveShare("A", u)
    \/ \E u \in UserIds : DeleteShare("A", u)
    \/ \E k \in KeyInputs : Restart(k)

SpecKey == Init /\ [][NextKey]_vars

---------------------------------------------------------------------------
(* The custody engine under concurrent callers: the steps of the calls of  *)
(* two callers, and the deletion of the user, interleave in any order. The *)
(* callers contend for one user: calls for different users touch different *)
(* rows.                                                                   *)

ConcUserIds == {1}
\* "1.a.2.b" and "1.c.2.d"
ConcShareInputs == { <<49, 46, 97, 46, 50, 46, 98>>, <<49, 46, 99, 46, 50, 46, 100>> }

InitConc ==
    /\ Init
    /\ SERVER_ENCRYPTION_KEY = TestKey

NextConc ==
    \/ \E c \in Callers, u \in ConcUserIds, s \in ConcShareInputs : storeShare_check(c, u, s)
    \/ \E c \in Callers, n \in NonceInputs : storeShare_insert(c, n)
    \/ \E c \in Callers : storeShare_reread(c)
    \/ \E c \in Callers, u \in ConcUserIds, s \in ConcShareInputs : updateShare_check(c, u, s)
    \/ \E c \in Callers, n \in NonceInputs : updateShare_write(c, n)
    \/ \E c \in Callers : updateShare_reread(c)
    \/ \E c \in Callers, u \in ConcUserIds : RetrieveShare(c, u)
    \/ \E c \in Callers, u \in ConcUserIds : DeleteShare(c, u)
    \/ \E u \in ConcUserIds : DeleteUser(u)

SpecConc == InitConc /\ [][NextConc]_vars

---------------------------------------------------------------------------
(* The access log and the rate limiter over time: rows are logged, the     *)
(* clock advances, and isRateLimited is asked about a user, an address and *)
(* an action.                                                              *)

\* what the callers of logAccess hand to it: the rows are user 1's, the
\* questions are about both users
LogInputs ==
    { [userId |-> 1, ipAddress |-> "ipA", action |-> "store", success |-> FALSE,
       failureReason |-> "Share already exists"],
      [userId |-> 1, ipAddress |-> "ipA", action |-> "store", success |-> TRUE,
       failureReason |-> ""],
      [userId |-> 1, ipAddress |-> "ipA", action |-> "update", success |-> FALSE,
       failureReason |-> "OTP verification failed"] }

\* minutes the clock advances in one step
TickInputs == {30}
\* the clock stops after MaxTicks half hours
MaxNow == MaxTicks * 30

rateUnchanged ==
    /\ UNCHANGED <<SERVER_ENCRYPTION_KEY, users, nextUserId, auth_methods,
                   nextAuthMethodId, payments, wallet,
                   shamir_shares, nextShareId,
                   call, result, lastWrite, response>>
    /\ deletionUnchanged
    /\ tokenUnchanged
    /\ devUnchanged

LogAccess(e) ==
    /\ BagCardinality(share_access_log) < MaxLog
    /\ e.userId \in userIds(users)
    /\ share_access_log' = logAccess(share_access_log, e.userId, e.ipAddress, e.action,
                                     e.success, e.failureReason, now)
    /\ limitResult' = NoLimit
    /\ UNCHANGED now
    /\ rateUnchanged

Tick(d) ==
    /\ now + d <= MaxNow
    /\ now' = now + d
    /\ limitResult' = NoLimit
    /\ UNCHANGED share_access_log
    /\ rateUnchanged

IsRateLimited(userId, ipAddress, action) ==
    /\ LET r == isRateLimited(share_access_log, userId, ipAddress, action, now) IN
       limitResult' = [asked |-> TRUE, limited |-> r.limited,
                       retryAfterMinutes |-> r.retryAfterMinutes]
    /\ UNCHANGED <<share_access_log, now>>
    /\ rateUnchanged

InitRate ==
    /\ Init
    /\ SERVER_ENCRYPTION_KEY = TestKey

NextRate ==
    \/ \E e \in LogInputs : LogAccess(e)
    \/ \E d \in TickInputs : Tick(d)
    \/ \E u \in UserIds, ip \in IpAddresses, a \in Actions : IsRateLimited(u, ip, a)

SpecRate == InitRate /\ [][NextRate]_vars

\* the same with the deletion of users, over shorter logs
NextLog ==
    \/ /\ BagCardinality(share_access_log) < MaxLogRows
       /\ \E e \in LogInputs : LogAccess(e)
    \/ \E d \in TickInputs : Tick(d)
    \/ \E u \in UserIds, ip \in IpAddresses, a \in Actions : IsRateLimited(u, ip, a)
    \/ \E u \in UserIds : DeleteUser(u)

SpecLog == InitRate /\ [][NextLog]_vars

\* the same with the clock advancing by 20 minutes, so that it passes the
\* end of a window before the end of the lockout
LockoutTickInputs == {20}

NextLockout ==
    \/ /\ BagCardinality(share_access_log) < MaxLogRows
       /\ \E e \in LogInputs : LogAccess(e)
    \/ \E d \in LockoutTickInputs : Tick(d)
    \/ \E u \in UserIds, ip \in IpAddresses, a \in Actions : IsRateLimited(u, ip, a)

SpecLockout == InitRate /\ [][NextLockout]_vars

---------------------------------------------------------------------------
(* ShareController: each request is handled in one step *)

\* shareB.split(".").length
shareParts(share) == Cardinality({i \in 1..Len(share) : share[i] = 46}) + 1

\* ShareService.storeShare as one call: the rows after it, or what it throws
storeShare(rows, userRows, envKey, id, userId, share, nonce) ==
    IF getShareByUserId(rows, userId) # {} THEN Err("DuplicateShare")
    ELSE LET enc == encryptShareOf(envKey, share, nonce) IN
         IF ~enc.ok THEN Err(enc.error)
         ELSE LET ins == insertShare(rows, userIds(userRows),
                             [id |-> id, userId |-> userId,
                              shareEncrypted |-> enc.value.encrypted,
                              shareNonce |-> enc.value.nonce,
                              shareTag |-> enc.value.tag,
                              shareVersion |-> 1])
              IN  IF ~ins.ok THEN ins
                  ELSE IF First({r \in ins.value : r.id = id}) = {}
                  THEN Err("Failed to store share")
                  ELSE ins

\* ShareService.updateShare as one call
updateShare(rows, envKey, userId, newShare, nonce) ==
    LET existing == getShareByUserId(rows, userId) IN
    IF existing = {} THEN Err("NoExistingShare")
    ELSE LET enc == encryptShareOf(envKey, newShare, nonce) IN
         IF ~enc.ok THEN Err(enc.error)
         ELSE LET written == updateShareRows(rows, userId, enc.value,
                                 (CHOOSE r \in existing : TRUE).shareVersion + 1)
              IN  IF getShareByUserId(written, userId) = {}
                  THEN Err("Failed to update share")
                  ELSE Ok(written)

\* UserService.getUserByUserIdHash: the row with that hash, as a set of at
\* most one row
getUserByUserIdHash(userRows, userIdHash) ==
    First({u \in userRows : u.userIdHash = userIdHash})

\* UserService.createUserWithUserIdHash: the row it inserts
createUserWithUserIdHash(id, userIdHash) == [id |-> id, userIdHash |-> userIdHash]

\* the row of auth_methods for (methodType, config), as a set of at most
\* one row
authMethodOf(rows, methodType, config) ==
    First({r \in rows : r.methodType = methodType /\ r.config = config})

\* UserService.linkAuthMethod: the row for (methodType, config) is pointed
\* at the user if there is one, and inserted under the next id otherwise
linkAuthMethod(rows, id, userId, methodType, config) ==
    LET existing == authMethodOf(rows, methodType, config)
    IN  IF existing # {}
        THEN {IF r \in existing THEN [r EXCEPT !.userId = userId] ELSE r : r \in rows}
        ELSE rows \cup {[id |-> id, userId |-> userId,
                         methodType |-> methodType, config |-> config,
                         receivedFaucet |-> FALSE]}

\* what authMethod.completeAuth answered in the request
otpOf(authOk) == IF authOk THEN "ok" ELSE "failed"

\* a variant of otpVerified that lets every answer pass
otpVerified_always(authOk) == TRUE

\* authResult.success, as the handlers test it
otpVerified(authOk) == authOk

\* res.status(status).json(...): userId is the user row the handler holds,
\* 0 if it holds none; shareB is the share in the body, empty if none; otp
\* is what completeAuth answered, "none" if the handler did not get to it;
\* retryAfterMinutes is the number of minutes in the message, 0 if none
Respond(action, status, userId, otp) ==
    response' = [action |-> action, status |-> status, userId |-> userId,
                 shareB |-> <<>>, otp |-> otp, retryAfterMinutes |-> 0]

RespondShare(action, status, userId, otp, shareB) ==
    response' = [action |-> action, status |-> status, userId |-> userId,
                 shareB |-> shareB, otp |-> otp, retryAfterMinutes |-> 0]

\* a 429 whose message does not say when to try again
RespondLimited_noHint(action, userId, otp, rateLimit) ==
    response' = [action |-> action, status |-> 429, userId |-> userId,
                 shareB |-> <<>>, otp |-> otp, retryAfterMinutes |-> 0]

\* res.status(429).json: "Too many attempts. Try again in
\* ${rateLimit.retryAfterMinutes} minutes."
RespondLimited(action, userId, otp, rateLimit) ==
    response' = [action |-> action, status |-> 429, userId |-> userId,
                 shareB |-> <<>>, otp |-> otp,
                 retryAfterMinutes |-> rateLimit.retryAfterMinutes]

Log(userId, ipAddress, action, success, failureReason) ==
    share_access_log' = logAccess(share_access_log, userId, ipAddress, action,
                                  success, failureReason, now)

ctlUnchanged ==
    /\ UNCHANGED <<SERVER_ENCRYPTION_KEY, payments, wallet, call, result, now,
                   limitResult>>
    /\ deletionUnchanged
    /\ tokenUnchanged
    /\ devUnchanged

\* ShareController.storeShare; authOk is the answer of authMethod.completeAuth
ShareController_storeShare(ipAddress, methodType, config, shareB, userIdHash, authOk, nonce) ==
    /\ BagCardinality(share_access_log) < MaxRequests
    /\ IF shareParts(shareB) # 4
       THEN /\ Respond("store", 400, 0, "none")
            /\ UNCHANGED <<users, nextUserId, auth_methods, nextAuthMethodId, shamir_shares, nextShareId,
                           lastWrite, share_access_log>>
       ELSE IF ~otpVerified(authOk)
       THEN /\ Respond("store", 401, 0, otpOf(authOk))
            /\ UNCHANGED <<users, nextUserId, auth_methods, nextAuthMethodId, shamir_shares, nextShareId,
                           lastWrite, share_access_log>>
       ELSE
       LET found == getUserByUserIdHash(users, userIdHash)
           user == IF found # {} THEN CHOOSE u \in found : TRUE
                   ELSE createUserWithUserIdHash(nextUserId, userIdHash)
       IN
       IF found # {} /\ getShareByUserId(shamir_shares, user.id) # {}
       THEN /\ Log(user.id, ipAddress, "store", FALSE, "Share already exists")
            /\ Respond("store", 409, user.id, otpOf(authOk))
            /\ UNCHANGED <<users, nextUserId, auth_methods, nextAuthMethodId, shamir_shares, nextShareId,
                           lastWrite>>
       ELSE
       /\ users' = users \cup {user}
       /\ nextUserId' = IF found # {} THEN nextUserId ELSE nextUserId + 1
       /\ auth_methods' = IF found # {} THEN auth_methods
                          ELSE linkAuthMethod(auth_methods, nextAuthMethodId, user.id,
                                              methodType, config)
       /\ nextAuthMethodId' =
              IF found # {} \/ authMethodOf(auth_methods, methodType, config) # {}
              THEN nextAuthMethodId ELSE nextAuthMethodId + 1
       /\ LET rateLimit == isRateLimited(share_access_log, user.id, ipAddress, "store", now)
              stored == storeShare(shamir_shares, users \cup {user}, SERVER_ENCRYPTION_KEY,
                                   nextShareId, user.id, shareB, nonce)
          IN
          IF rateLimit.limited
          THEN /\ Log(user.id, ipAddress, "store", FALSE, "Rate limited")
               /\ RespondLimited("store", user.id, otpOf(authOk), rateLimit)
               /\ UNCHANGED <<shamir_shares, nextShareId, lastWrite>>
          ELSE IF ~stored.ok
          THEN /\ Respond("store", 500, user.id, otpOf(authOk))
               /\ UNCHANGED <<shamir_shares, nextShareId, lastWrite, share_access_log>>
          ELSE /\ shamir_shares' = stored.value
               /\ nextShareId' = nextShareId + 1
               /\ lastWrite' = [lastWrite EXCEPT ![user.id] =
                                   [live |-> TRUE, share |-> shareB, updates |-> 0]]
               /\ Log(user.id, ipAddress, "store", TRUE, "")
               /\ Respond("store", 200, user.id, otpOf(authOk))
    /\ ctlUnchanged

\* ShareController.retrieveShare
ShareController_retrieveShare(ipAddress, userIdHash, authOk) ==
    /\ BagCardinality(share_access_log) < MaxRequests
    /\ LET found == getUserByUserIdHash(users, userIdHash) IN
       IF found = {}
       THEN /\ Respond("retrieve", 404, 0, "none")
            /\ UNCHANGED share_access_log
       ELSE
       LET user == CHOOSE u \in found : TRUE
           rateLimit == isRateLimited(share_access_log, user.id, ipAddress, "retrieve", now)
           share == retrieveDecryptedShare(shamir_shares, SERVER_ENCRYPTION_KEY, user.id)
       IN
       IF rateLimit.limited
       THEN /\ Log(user.id, ipAddress, "retrieve", FALSE, "Rate limited")
            /\ RespondLimited("retrieve", user.id, "none", rateLimit)
       ELSE IF ~otpVerified(authOk)
       THEN /\ Log(user.id, ipAddress, "retrieve", FALSE, "OTP verification failed")
            /\ Respond("retrieve", 401, user.id, otpOf(authOk))
       ELSE IF share.error # ""
       THEN /\ Respond("retrieve", 500, user.id, otpOf(authOk))
            /\ UNCHANGED share_access_log
       ELSE IF ~share.found \/ share.share = <<>>
       THEN /\ Log(user.id, ipAddress, "retrieve", FALSE, "No share found")
            /\ Respond("retrieve", 404, user.id, otpOf(authOk))
       ELSE /\ Log(user.id, ipAddress, "retrieve", TRUE, "")
            /\ RespondShare("retrieve", 200, user.id, otpOf(authOk), share.share)
    /\ UNCHANGED <<users, nextUserId, auth_methods, nextAuthMethodId, shamir_shares, nextShareId, lastWrite>>
    /\ ctlUnchanged

\* ShareController.updateShare
ShareController_updateShare(ipAddress, userIdHash, newShareB, authOk, nonce) ==
    /\ BagCardinality(share_access_log) < MaxRequests
    /\ LET found == getUserByUserIdHash(users, userIdHash) IN
       IF shareParts(newShareB) # 4
       THEN /\ Respond("update", 400, 0, "none")
            /\ UNCHANGED <<shamir_shares, lastWrite, share_access_log>>
       ELSE IF found = {}
       THEN /\ Respond("update", 404, 0, "none")
            /\ UNCHANGED <<shamir_shares, lastWrite, share_access_log>>
       ELSE
       LET user == CHOOSE u \in found : TRUE
           rateLimit == isRateLimited(share_access_log, user.id, ipAddress, "update", now)
           updated == updateShare(shamir_shares, SERVER_ENCRYPTION_KEY, user.id,
                                  newShareB, nonce)
       IN
       IF rateLimit.limited
       THEN /\ Log(user.id, ipAddress, "update", FALSE, "Rate limited")
            /\ RespondLimited("update", user.id, "none", rateLimit)
            /\ UNCHANGED <<shamir_shares, lastWrite>>
       ELSE IF ~otpVerified(authOk)
       THEN /\ Log(user.id, ipAddress, "update", FALSE, "OTP verification failed")
            /\ Respond("update", 401, user.id, otpOf(authOk))
            /\ UNCHANGED <<shamir_shares, lastWrite>>
       ELSE IF ~updated.ok
       THEN /\ Respond("update", 500, user.id, otpOf(authOk))
            /\ UNCHANGED <<shamir_shares, lastWrite, share_access_log>>
       ELSE /\ \A r \in updated.value : r.shareVersion <= MaxVersion
            /\ shamir_shares' = updated.value
            /\ lastWrite' = [lastWrite EXCEPT ![user.id].share = newShareB,
                                              ![user.id].updates = @ + 1]
            /\ Log(user.id, ipAddress, "update", TRUE, "")
            /\ Respond("update", 200, user.id, otpOf(authOk))
    /\ UNCHANGED <<users, nextUserId, auth_methods, nextAuthMethodId, nextShareId>>
    /\ ctlUnchanged

\* what the requests of the model carry
HashInputs == {"h1", "h2"}
\* "1.a.2.b", and "1.a", which is no share
StoreInputs == { <<49, 46, 97, 46, 50, 46, 98>>, <<49, 46, 97>> }
\* "1.c.2.d"
UpdateInputs == { <<49, 46, 99, 46, 50, 46, 100>> }

InitCtl ==
    /\ SERVER_ENCRYPTION_KEY \in {TestKey, <<>>}
    /\ users = {}
    /\ nextUserId = 1
    /\ auth_methods = {}
    /\ nextAuthMethodId = 1
    /\ payments = {}
    /\ wallet = {}
    /\ shamir_shares = {}
    /\ nextShareId = 1
    /\ call = [c \in Callers |-> Idle]
    /\ result = [c \in Callers |-> NoResult]
    /\ lastWrite = [u \in UserIds |-> NoWrite]
    /\ share_access_log = EmptyBag
    /\ now = 0
    /\ limitResult = NoLimit
    /\ response = NoResponse
    /\ InitSide

Request ==
    \/ \E h \in HashInputs, s \in StoreInputs, ok \in BOOLEAN :
          ShareController_storeShare("ipA", "DevConsole", "dev", s, h, ok,
                                     Repeat(<<0>>, 12))
    \/ \E h \in HashInputs, ok \in BOOLEAN : ShareController_retrieveShare("ipA", h, ok)
    \/ \E h \in HashInputs, s \in UpdateInputs, ok \in BOOLEAN :
          ShareController_updateShare("ipA", h, s, ok, Repeat(<<0>>, 12))

NextCtl == Request

SpecCtl == InitCtl /\ [][NextCtl]_vars

\* the same requests over shorter runs
NextOtp ==
    \/ /\ BagCardinality(share_access_log) < MaxOtpRequests
       /\ \E h \in HashInputs, s \in StoreInputs, ok \in BOOLEAN :
             ShareController_storeShare("ipA", "DevConsole", "dev", s, h, ok,
                                        Repeat(<<0>>, 12))
    \/ /\ BagCardinality(share_access_log) < MaxOtpRequests
       /\ \E h \in HashInputs, ok \in BOOLEAN : ShareController_retrieveShare("ipA", h, ok)
    \/ /\ BagCardinality(share_access_log) < MaxOtpRequests
       /\ \E h \in HashInputs, s \in UpdateInputs, ok \in BOOLEAN :
             ShareController_updateShare("ipA", h, s, ok, Repeat(<<0>>, 12))

SpecOtp == InitCtl /\ [][NextOtp]_vars

\* the requests that run into the limits: stores with a verified one-time
\* password, retrieves and updates with a wrong one, over longer runs
NextLimit ==
    \/ /\ BagCardinality(share_access_log) < MaxLimitRequests
       /\ \E h \in HashInputs, s \in StoreInputs :
             ShareController_storeShare("ipA", "DevConsole", "dev", s, h, TRUE,
                                        Repeat(<<0>>, 12))
    \/ /\ BagCardinality(share_access_log) < MaxLimitRequests
       /\ \E h \in HashInputs : ShareController_retrieveShare("ipA", h, FALSE)
    \/ /\ BagCardinality(share_access_log) < MaxLimitRequests
       /\ \E h \in HashInputs, s \in UpdateInputs :
             ShareController_updateShare("ipA", h, s, FALSE, Repeat(<<0>>, 12))

SpecLimit == InitCtl /\ [][NextLimit]_vars

\* the requests that leave a share and log rows, and the deletion of users;
\* a deleted user's identity hash signs up again under the next id
NextPurge ==
    \/ /\ BagCardinality(share_access_log) < MaxLogRows
       /\ \E h \in HashInputs, s \in StoreInputs :
             /\ getUserByUserIdHash(users, h) # {} \/ nextUserId \in UserIds
             /\ ShareController_storeShare("ipA", "DevConsole", "dev", s, h, TRUE,
                                           Repeat(<<0>>, 12))
    \/ /\ BagCardinality(share_access_log) < MaxLogRows
       /\ \E h \in HashInputs, ok \in BOOLEAN : ShareController_retrieveShare("ipA", h, ok)
    \/ \E u \in UserIds : DeleteUser(u)

SpecPurge == InitCtl /\ [][NextPurge]_vars

---------------------------------------------------------------------------
(* The account controllers: /auth/complete, /faucet/request,                *)
(* /user/unlinkMethod and /user/delete. The handlers of two clients run     *)
(* between one another's awaits; every user signs up with the one identity  *)
(* (AcctMethodType, AcctConfig).                                            *)

AcctMethodType == "DevConsole"
AcctConfig == "dev"
\* UserService.createUser: the row it inserts; presentationKey is unique
userOfKey(presentationKey, id) ==
    [id |-> id, userIdHash |-> Null, presentationKey |-> presentationKey]

createUser(userRows, id, presentationKey) ==
    IF \E u \in userRows : u.presentationKey = presentationKey
    THEN Err("UniqueViolation")
    ELSE Ok(userRows \cup {userOfKey(presentationKey, id)})

getUserByPresentationKey(userRows, key) ==
    First({u \in userRows : u.presentationKey = key})

getAuthMethodsByUserId(rows, userId) == {r \in rows : r.userId = userId}

\* UserService.findUserByConfig: the user the row of (methodType, config)
\* points at, as a set of at most one user
findUserByConfig(authRows, userRows, methodType, config) ==
    LET authMethod == authMethodOf(authRows, methodType, config) IN
    IF authMethod = {} \/ (CHOOSE r \in authMethod : TRUE).userId = 0
    THEN {}
    ELSE First({u \in userRows : u.id = (CHOOSE r \in authMethod : TRUE).userId})

\* UserService.markFaucetReceived
markFaucetReceived(rows, userId) ==
    {IF r.userId = userId THEN [r EXCEPT !.receivedFaucet = TRUE] ELSE r : r \in rows}

AcctIdle(c) == call' = [call EXCEPT ![c] = Idle]
AuthResult(status, success, presentationKey) ==
    [op |-> "complete", status |-> status, success |-> success,
     presentationKey |-> presentationKey]

dbUnchanged == UNCHANGED <<users, nextUserId, auth_methods, nextAuthMethodId,
                           payments, wallet>>
shareSideUnchanged ==
    /\ UNCHANGED <<SERVER_ENCRYPTION_KEY, shamir_shares, nextShareId,
                   lastWrite, share_access_log, now, limitResult>>
    /\ deletionUnchanged
    /\ tokenUnchanged
    /\ devUnchanged

\* AuthController.completeAuth, lines 69-90: the verification and the
\* lookup of the user of the identity
completeAuth_find(c, methodType, presentationKey, config, authOk) ==
    /\ call[c].pc = "idle"
    /\ IF methodType = "" \/ presentationKey = "" \/ config = ""
       THEN /\ result' = [result EXCEPT ![c] = AuthResult(400, FALSE, Null)]
            /\ UNCHANGED call
       ELSE IF ~otpVerified(authOk)
       THEN /\ result' = [result EXCEPT ![c] = AuthResult(200, FALSE, Null)]
            /\ UNCHANGED call
       ELSE LET user == findUserByConfig(auth_methods, users, methodType, config) IN
            IF user # {}
            THEN /\ result' = [result EXCEPT ![c] =
                        AuthResult(200, TRUE, (CHOOSE u \in user : TRUE).presentationKey)]
                 /\ UNCHANGED call
            ELSE /\ call' = [call EXCEPT ![c] =
                        [pc |-> "complete_create", userId |-> 0,
                         methodType |-> methodType, config |-> config,
                         presentationKey |-> presentationKey]]
                 /\ UNCHANGED result
    /\ dbUnchanged
    /\ shareSideUnchanged
    /\ UNCHANGED response

\* line 91: createUser
completeAuth_create(c) ==
    /\ call[c].pc = "complete_create"
    /\ nextUserId <= MaxUsers
    /\ LET created == createUser(users, nextUserId, call[c].presentationKey) IN
       IF ~created.ok
       THEN /\ Finish(c, AuthResult(500, FALSE, Null))
            /\ UNCHANGED <<users, nextUserId>>
       ELSE /\ users' = created.value
            /\ nextUserId' = nextUserId + 1
            /\ call' = [call EXCEPT ![c].pc = "complete_link", ![c].userId = nextUserId]
            /\ UNCHANGED result
    /\ UNCHANGED <<auth_methods, nextAuthMethodId, payments, wallet>>
    /\ shareSideUnchanged
    /\ UNCHANGED response

\* lines 92-111: linkAuthMethod, then the answer with the key of the user
\* row the handler holds; the update or insert fails on the foreign key if
\* the user is gone
completeAuth_link(c) ==
    /\ call[c].pc = "complete_link"
    /\ IF call[c].userId \notin userIds(users)
       THEN /\ Finish(c, AuthResult(500, FALSE, Null))
            /\ UNCHANGED <<auth_methods, nextAuthMethodId>>
       ELSE /\ auth_methods' = linkAuthMethod(auth_methods, nextAuthMethodId, call[c].userId,
                                              call[c].methodType, call[c].config)
            /\ nextAuthMethodId' =
                   IF authMethodOf(auth_methods, call[c].methodType, call[c].config) # {}
                   THEN nextAuthMethodId ELSE nextAuthMethodId + 1
            /\ Finish(c, AuthResult(200, TRUE, call[c].presentationKey))
    /\ UNCHANGED <<users, nextUserId, payments, wallet>>
    /\ shareSideUnchanged
    /\ UNCHANGED response

\* FaucetController.requestFaucet, lines 26-44: the user of the key and the
\* receivedFaucet flags of the user's auth methods
requestFaucet_check(c, presentationKey) ==
    /\ call[c].pc = "idle"
    /\ LET user == getUserByPresentationKey(users, presentationKey) IN
       IF presentationKey = ""
       THEN Respond("faucet", 400, 0, "none") /\ UNCHANGED call
       ELSE IF user = {}
       THEN Respond("faucet", 404, 0, "none") /\ UNCHANGED call
       ELSE LET u == CHOOSE x \in user : TRUE IN
            IF \E am \in getAuthMethodsByUserId(auth_methods, u.id) : am.receivedFaucet
            THEN Respond("faucet", 403, u.id, "none") /\ UNCHANGED call
            ELSE /\ call' = [call EXCEPT ![c] =
                        [pc |-> "faucet_find", userId |-> u.id, txid |-> 0]]
                 /\ UNCHANGED response
    /\ dbUnchanged
    /\ shareSideUnchanged
    /\ UNCHANGED result

\* UserService.getOrCreateFaucetPayment, line 161: the payment of the user
getOrCreateFaucetPayment_find(c) ==
    /\ call[c].pc = "faucet_find"
    /\ call' = [call EXCEPT ![c].pc =
                   IF \E p \in payments : p.userId = call[c].userId
                   THEN "faucet_mark" ELSE "faucet_fund"]
    /\ dbUnchanged
    /\ shareSideUnchanged
    /\ UNCHANGED <<result, response>>

\* lines 174-194: wallet.createAction makes the funding transaction
getOrCreateFaucetPayment_fund(c) ==
    /\ call[c].pc = "faucet_fund"
    /\ wallet' = wallet \cup {[txid |-> Cardinality(wallet) + 1, userId |-> call[c].userId]}
    /\ call' = [call EXCEPT ![c].pc = "faucet_insert", ![c].txid = Cardinality(wallet) + 1]
    /\ UNCHANGED <<users, nextUserId, auth_methods, nextAuthMethodId, payments>>
    /\ shareSideUnchanged
    /\ UNCHANGED <<result, response>>

\* lines 197-215: the payment row; the insert fails on the foreign key if
\* the user is gone
getOrCreateFaucetPayment_insert(c) ==
    /\ call[c].pc = "faucet_insert"
    /\ IF call[c].userId \notin userIds(users)
       THEN /\ AcctIdle(c)
            /\ Respond("faucet", 500, call[c].userId, "none")
            /\ UNCHANGED payments
       ELSE /\ payments' = payments \cup
                   {[id |-> Cardinality(payments) + 1, userId |-> call[c].userId,
                     txid |-> call[c].txid]}
            /\ call' = [call EXCEPT ![c].pc = "faucet_mark"]
            /\ UNCHANGED response
    /\ UNCHANGED <<users, nextUserId, auth_methods, nextAuthMethodId, wallet>>
    /\ shareSideUnchanged
    /\ UNCHANGED result

\* FaucetController.requestFaucet, lines 48-60: markFaucetReceived and the
\* answer
requestFaucet_mark(c) ==
    /\ call[c].pc = "faucet_mark"
    /\ auth_methods' = markFaucetReceived(auth_methods, call[c].userId)
    /\ AcctIdle(c)
    /\ Respond("faucet", 200, call[c].userId, "none")
    /\ UNCHANGED <<users, nextUserId, nextAuthMethodId, payments, wallet>>
    /\ shareSideUnchanged
    /\ UNCHANGED result

\* UserController.unlinkMethod
UserController_unlinkMethod(presentationKey, authMethodId) ==
    /\ LET user == getUserByPresentationKey(users, presentationKey)
           method == {r \in auth_methods : r.id = authMethodId}
       IN
       IF presentationKey = "" \/ authMethodId = 0
       THEN Respond("unlink", 400, 0, "none") /\ UNCHANGED auth_methods
       ELSE IF user = {}
       THEN Respond("unlink", 404, 0, "none") /\ UNCHANGED auth_methods
       ELSE IF method = {} \/ (CHOOSE r \in method : TRUE).userId # (CHOOSE u \in user : TRUE).id
       THEN /\ Respond("unlink", 404, (CHOOSE u \in user : TRUE).id, "none")
            /\ UNCHANGED auth_methods
       ELSE /\ auth_methods' = auth_methods \ method
            /\ Respond("unlink", 200, (CHOOSE u \in user : TRUE).id, "none")
    /\ UNCHANGED <<users, nextUserId, nextAuthMethodId, payments, wallet>>
    /\ shareSideUnchanged
    /\ UNCHANGED <<call, result>>

\* UserController.deleteUser: deleteUserByPresentationKey and what the
\* foreign keys do to the rows that reference the user
UserController_deleteUser(presentationKey) ==
    /\ LET user == getUserByPresentationKey(users, presentationKey) IN
       IF presentationKey = ""
       THEN /\ Respond("delete", 400, 0, "none")
            /\ UNCHANGED <<users, auth_methods, payments, shamir_shares, share_access_log>>
       ELSE IF user = {}
       THEN /\ Respond("delete", 404, 0, "none")
            /\ UNCHANGED <<users, auth_methods, payments, shamir_shares, share_access_log>>
       ELSE LET userId == (CHOOSE u \in user : TRUE).id IN
            /\ users' = users \ user
            /\ auth_methods' = setNullAuthMethods(auth_methods, userId)
            /\ payments' = setNullPayments(payments, userId)
            /\ shamir_shares' = cascadeShares(shamir_shares, userId)
            /\ share_access_log' = cascadeLog(share_access_log, userId)
            /\ Respond("delete", 200, userId, "none")
    /\ UNCHANGED <<SERVER_ENCRYPTION_KEY, nextUserId, nextAuthMethodId, wallet, nextShareId,
                   lastWrite, now, limitResult, call, result>>
    /\ deletionUnchanged
    /\ tokenUnchanged
    /\ devUnchanged

InitAcct ==
    /\ InitCtl
    /\ SERVER_ENCRYPTION_KEY = TestKey

\* sign-up, unlinking and deletion, with the completions of two clients
\* interleaved
NextAuth ==
    \/ \E c \in Callers, k \in PresentationKeys, ok \in BOOLEAN :
          completeAuth_find(c, AcctMethodType, k, AcctConfig, ok)
    \/ \E c \in Callers : completeAuth_create(c)
    \/ \E c \in Callers : completeAuth_link(c)
    \/ \E k \in PresentationKeys, id \in 1..MaxUsers : UserController_unlinkMethod(k, id)
    \/ \E k \in PresentationKeys : UserController_deleteUser(k)

SpecAuth == InitAcct /\ [][NextAuth]_vars

\* sign-up alone: the completions of two clients interleaved, no unlinking
\* and no deletion
NextSignUp ==
    \/ \E c \in Callers, k \in PresentationKeys, ok \in BOOLEAN :
          completeAuth_find(c, AcctMethodType, k, AcctConfig, ok)
    \/ \E c \in Callers : completeAuth_create(c)
    \/ \E c \in Callers : completeAuth_link(c)

SpecSignUp == InitAcct /\ [][NextSignUp]_vars

\* UserController.unlinkMethod, lines 43-59: the user of the key and the
\* method of the id, as the handler reads them
unlinkMethod_check(c, presentationKey, authMethodId) ==
    /\ call[c].pc = "idle"
    /\ LET user == getUserByPresentationKey(users, presentationKey)
           method == {r \in auth_methods : r.id = authMethodId}
       IN
       IF presentationKey = "" \/ authMethodId = 0
       THEN Respond("unlink", 400, 0, "none") /\ UNCHANGED call
       ELSE IF user = {}
       THEN Respond("unlink", 404, 0, "none") /\ UNCHANGED call
       ELSE IF method = {} \/ (CHOOSE r \in method : TRUE).userId # (CHOOSE u \in user : TRUE).id
       THEN Respond("unlink", 404, (CHOOSE u \in user : TRUE).id, "none") /\ UNCHANGED call
       ELSE /\ call' = [call EXCEPT ![c] =
                   [pc |-> "unlink_delete", userId |-> (CHOOSE u \in user : TRUE).id,
                    authMethodId |-> authMethodId]]
            /\ UNCHANGED response
    /\ dbUnchanged
    /\ shareSideUnchanged
    /\ UNCHANGED result

\* lines 60-61: deleteAuthMethodById(method.id) deletes the row of the id,
\* whoever it is linked to by now
unlinkMethod_delete(c) ==
    /\ call[c].pc = "unlink_delete"
    /\ auth_methods' = {r \in auth_methods : r.id # call[c].authMethodId}
    /\ Respond("unlink", 200, call[c].userId, "none")
    /\ AcctIdle(c)
    /\ UNCHANGED <<users, nextUserId, nextAuthMethodId, payments, wallet>>
    /\ shareSideUnchanged
    /\ UNCHANGED result

\* sign-up, unlinking and deletion, with the awaits of unlinkMethod open to
\* the requests of the other client
NextUnlink ==
    \/ \E c \in Callers, k \in PresentationKeys :
          completeAuth_find(c, AcctMethodType, k, AcctConfig, TRUE)
    \/ \E c \in Callers : completeAuth_create(c)
    \/ \E c \in Callers : completeAuth_link(c)
    \/ \E c \in Callers, k \in PresentationKeys, id \in 0..MaxUsers :
          unlinkMethod_check(c, k, id)
    \/ \E c \in Callers : unlinkMethod_delete(c)
    \/ \E k \in PresentationKeys : UserController_deleteUser(k)

SpecUnlink == InitAcct /\ [][NextUnlink]_vars

\* The faucet, with the requests of two clients interleaved; one client
\* signs up. The clients hold one key: a user who signs up again after the
\* deletion sends the same key.
FaucetKeys == {"k1"}

NextFaucet ==
    \/ \E k \in FaucetKeys : completeAuth_find("A", AcctMethodType, k, AcctConfig, TRUE)
    \/ completeAuth_create("A")
    \/ completeAuth_link("A")
    \/ \E c \in Callers, k \in FaucetKeys : requestFaucet_check(c, k)
    \/ \E c \in Callers : getOrCreateFaucetPayment_find(c)
    \/ \E c \in Callers : getOrCreateFaucetPayment_fund(c)
    \/ \E c \in Callers : getOrCreateFaucetPayment_insert(c)
    \/ \E c \in Callers : requestFaucet_mark(c)
    \/ \E k \in FaucetKeys, id \in 1..MaxUsers : UserController_unlinkMethod(k, id)
    \/ \E k \in FaucetKeys : UserController_deleteUser(k)

SpecFaucet == InitAcct /\ [][NextFaucet]_vars

---------------------------------------------------------------------------
(* The account deletion endpoints, /account/delete/start and               *)
(* /account/delete/complete: the owner of a phone number proves it with a  *)
(* code sent by SMS. The clock is in minutes.                               *)
(* checkRateLimit runs before the handler's first await, so                *)
(* the counts of two requests never interleave; the answer of startDeletion*)
(* is a function of what it reads, and the handler is one step.            *)

\* 15 * 60 * 1000 milliseconds
RATE_LIMIT_WINDOW == 15
RATE_LIMIT_MAX_ATTEMPTS == 3

\* the phone number and code TwilioAuthMethod accepts without asking Twilio
ADMIN_PHONE_NUMBERS == { [phoneNumber |-> "+18006382638", otp |-> "123456"] }

\* req.body.payload; NoPayload is a body without one
Payload(phoneNumber, otp) == [present |-> TRUE, phoneNumber |-> phoneNumber, otp |-> otp]
NoPayload == [present |-> FALSE, phoneNumber |-> "", otp |-> ""]

\* TwilioAuthMethod.buildConfigFromPayload
buildConfigFromPayload(payload) == payload.phoneNumber

\* checkRateLimit: whether the attempt is allowed, and the map it leaves
checkRateLimit(map, config, at) ==
    LET held == map[config]
        rateLimitData ==
            IF ~held.present \/ (at - held.lastReset) > RATE_LIMIT_WINDOW
            THEN [present |-> TRUE, count |-> 0, lastReset |-> at]
            ELSE held
    IN  IF rateLimitData.count >= RATE_LIMIT_MAX_ATTEMPTS
        THEN [allowed |-> FALSE, map |-> [map EXCEPT ![config] = rateLimitData]]
        ELSE [allowed |-> TRUE,
              map |-> [map EXCEPT ![config] =
                          [rateLimitData EXCEPT !.count = @ + 1]]]

\* getAuthMethodInstance: only "TwilioPhone" has an instance, the rest throws
getAuthMethodInstance(methodType) == methodType = "TwilioPhone"

\* TwilioAuthMethod.startAuth: the verifications Twilio holds afterwards;
\* sent is whether the lookup and the SMS went through
startAuth(verifs, payload, sent) ==
    IF payload.phoneNumber = "" \/ ~sent
    THEN [success |-> FALSE, verifs |-> verifs]
    ELSE [success |-> TRUE, verifs |-> verifs \cup {payload.phoneNumber}]

\* TwilioAuthMethod.completeAuth: "code" is the code of the pending
\* verification; an approved verification is used up
completeAuth(verifs, payload) ==
    IF payload.phoneNumber = "" \/ payload.otp = ""
    THEN [success |-> FALSE, message |-> "phoneNumber and otp are required.",
          verifs |-> verifs]
    ELSE IF \E admin \in ADMIN_PHONE_NUMBERS :
                admin.phoneNumber = payload.phoneNumber /\ admin.otp = payload.otp
    THEN [success |-> TRUE, message |-> "verified successfully.", verifs |-> verifs]
    ELSE IF payload.phoneNumber \in verifs /\ payload.otp = "code"
    THEN [success |-> TRUE, message |-> "verified successfully.",
          verifs |-> verifs \ {payload.phoneNumber}]
    ELSE [success |-> FALSE, message |-> "Verification code invalid or expired.",
          verifs |-> verifs]

\* res.status(status).json(body); config is the config of the request, ""
\* if the handler built none
DeletionResponse(action, status, success, deletionKey, message, config) ==
    [action |-> action, status |-> status, success |-> success,
     deletionKey |-> deletionKey, message |-> message, config |-> config]

\* `deletion_${Date.now()}_${random}`
deletionKeyOf(at, random) == [prefix |-> "deletion_", at |-> at, random |-> random]

SentMessage ==
    "If an account exists with this authentication method, a verification code has been sent."

\* startDeletion answering 404 when the identity has no account
startDeletion_notFound(authRows, userRows, map, verifs, at, methodType, payload, random, sent) ==
    IF methodType = "" \/ ~payload.present
    THEN [response |-> DeletionResponse("start", 400, "absent", NoDeletionKey,
                           "methodType and payload are required.", ""),
          map |-> map, verifs |-> verifs, allowed |-> FALSE]
    ELSE IF ~getAuthMethodInstance(methodType)
    THEN [response |-> DeletionResponse("start", 500, "absent", NoDeletionKey,
                           "Unsupported auth method", ""),
          map |-> map, verifs |-> verifs, allowed |-> FALSE]
    ELSE LET config == buildConfigFromPayload(payload)
             limit == checkRateLimit(map, config, at)
             user == findUserByConfig(authRows, userRows, methodType, config)
         IN  IF ~limit.allowed
             THEN [response |-> DeletionResponse("start", 429, "absent", NoDeletionKey,
                           "Too many deletion attempts. Please try again later.", config),
                   map |-> limit.map, verifs |-> verifs, allowed |-> FALSE]
             ELSE IF user = {}
             THEN [response |-> DeletionResponse("start", 404, "absent", NoDeletionKey,
                           "No account found with this authentication method.", config),
                   map |-> limit.map, verifs |-> verifs, allowed |-> TRUE]
             ELSE [response |-> DeletionResponse("start", 200, "true",
                           deletionKeyOf(at, random), SentMessage, config),
                   map |-> limit.map,
                   verifs |-> startAuth(verifs, payload, sent).verifs,
                   allowed |-> TRUE]

\* AccountDeletionController.startDeletion: the answer, the rate limit map
\* and the verifications it leaves, and whether checkRateLimit allowed it
startDeletion(authRows, userRows, map, verifs, at, methodType, payload, random, sent) ==
    IF methodType = "" \/ ~payload.present
    THEN [response |-> DeletionResponse("start", 400, "absent", NoDeletionKey,
                           "methodType and payload are required.", ""),
          map |-> map, verifs |-> verifs, allowed |-> FALSE]
    ELSE IF ~getAuthMethodInstance(methodType)
    THEN [response |-> DeletionResponse("start", 500, "absent", NoDeletionKey,
                           "Unsupported auth method", ""),
          map |-> map, verifs |-> verifs, allowed |-> FALSE]
    ELSE LET config == buildConfigFromPayload(payload)
             limit == checkRateLimit(map, config, at)
             user == findUserByConfig(authRows, userRows, methodType, config)
         IN  IF ~limit.allowed
             THEN [response |-> DeletionResponse("start", 429, "absent", NoDeletionKey,
                           "Too many deletion attempts. Please try again later.", config),
                   map |-> limit.map, verifs |-> verifs, allowed |-> FALSE]
             ELSE [response |-> DeletionResponse("start", 200, "true",
                           deletionKeyOf(at, random), SentMessage, config),
                   map |-> limit.map,
                   verifs |-> IF user # {}
                              THEN startAuth(verifs, payload, sent).verifs
                              ELSE verifs,
                   allowed |-> TRUE]

deletionDbUnchanged ==
    UNCHANGED <<users, nextUserId, auth_methods, nextAuthMethodId, payments, wallet,
                shamir_shares, nextShareId, share_access_log>>
deletionRestUnchanged ==
    /\ UNCHANGED <<SERVER_ENCRYPTION_KEY, call, result, lastWrite, limitResult, response>>
    /\ tokenUnchanged
    /\ devUnchanged

AccountDeletionController_startDeletion(methodType, payload, random, sent) ==
    /\ LET r == startDeletion(auth_methods, users, rateLimitMap, verifications, now,
                              methodType, payload, random, sent)
       IN  /\ deletionResponse' = r.response
           /\ rateLimitMap' = r.map
           /\ verifications' = r.verifs
           /\ admitted' = IF r.allowed
                          THEN [admitted EXCEPT ![r.response.config] = Append(@, now)]
                          ELSE admitted
    /\ deletionDbUnchanged
    /\ deletionRestUnchanged
    /\ UNCHANGED now

\* AccountDeletionController.completeDeletion
AccountDeletionController_completeDeletion(methodType, deletionKey, payload) ==
    /\ IF methodType = "" \/ deletionKey = NoDeletionKey \/ ~payload.present
       THEN /\ deletionResponse' = DeletionResponse("complete", 400, "absent", NoDeletionKey,
                    "methodType, deletionKey, and payload are required.", "")
            /\ UNCHANGED verifications
            /\ deletionDbUnchanged
       ELSE IF deletionKey.prefix # "deletion_"
       THEN /\ deletionResponse' = DeletionResponse("complete", 400, "absent", NoDeletionKey,
                    "Invalid deletion key format.", "")
            /\ UNCHANGED verifications
            /\ deletionDbUnchanged
       ELSE IF ~getAuthMethodInstance(methodType)
       THEN /\ deletionResponse' = DeletionResponse("complete", 500, "absent", NoDeletionKey,
                    "Unsupported auth method", "")
            /\ UNCHANGED verifications
            /\ deletionDbUnchanged
       ELSE LET auth == completeAuth(verifications, payload)
                config == buildConfigFromPayload(payload)
                user == findUserByConfig(auth_methods, users, methodType, config)
            IN  /\ verifications' = auth.verifs
                /\ IF ~auth.success
                   THEN /\ deletionResponse' = DeletionResponse("complete", 400, "false",
                                NoDeletionKey, auth.message, config)
                        /\ deletionDbUnchanged
                   ELSE IF user = {}
                   THEN /\ deletionResponse' = DeletionResponse("complete", 404, "absent",
                                NoDeletionKey,
                                "No account found with this authentication method.", config)
                        /\ deletionDbUnchanged
                   ELSE LET userId == (CHOOSE u \in user : TRUE).id IN
                        /\ users' = users \ user
                        /\ auth_methods' = setNullAuthMethods(auth_methods, userId)
                        /\ payments' = setNullPayments(payments, userId)
                        /\ shamir_shares' = cascadeShares(shamir_shares, userId)
                        /\ share_access_log' = cascadeLog(share_access_log, userId)
                        /\ deletionResponse' = DeletionResponse("complete", 200, "true",
                                NoDeletionKey,
                                "Account successfully deleted. You can now sign up again if desired.",
                                config)
                        /\ UNCHANGED <<nextUserId, nextAuthMethodId, wallet, nextShareId>>
    /\ UNCHANGED <<rateLimitMap, admitted, now>>
    /\ deletionRestUnchanged

\* minutes the clock advances between two deletion requests
DeletionTickInputs == {8}
MaxDeletionNow == MaxDeletionTicks * 8

DeletionTick(d) ==
    /\ now + d <= MaxDeletionNow
    /\ now' = now + d
    /\ deletionDbUnchanged
    /\ deletionRestUnchanged
    /\ deletionUnchanged

\* the bodies the clients send
MethodTypeInputs == {"TwilioPhone", "DevConsole", ""}
StartPayloadInputs == {Payload(p, "") : p \in PhoneNumbers} \cup {NoPayload}
OtpInputs == {"code", "123456"}
CompletePayloadInputs == {Payload(p, o) : p \in PhoneNumbers, o \in OtpInputs}
                         \cup {NoPayload}
DeletionKeyInputs == {deletionKeyOf(0, 0), [prefix |-> "other_", at |-> 0, random |-> 0],
                      NoDeletionKey}
RandomInputs == {1}
DeletionKeys == {"k1", "k2"}
phoneOfKey(k) == IF k = "k1" THEN "+18006382638" ELSE "+15550001"

InitDeletion == InitAcct

\* sign-up of the owner of each phone number with TwilioPhone and the
\* deletion requests of anyone, all within one minute
NextDeletion ==
    \/ \E k \in DeletionKeys :
          completeAuth_find("A", "TwilioPhone", k, phoneOfKey(k), TRUE)
    \/ completeAuth_create("A")
    \/ completeAuth_link("A")
    \/ \E m \in MethodTypeInputs, p \in StartPayloadInputs, r \in RandomInputs,
          sent \in BOOLEAN : AccountDeletionController_startDeletion(m, p, r, sent)
    \/ \E m \in MethodTypeInputs, k \in DeletionKeyInputs, p \in CompletePayloadInputs :
          AccountDeletionController_completeDeletion(m, k, p)

SpecDeletion == InitDeletion /\ [][NextDeletion]_vars

\* the start requests for two phone numbers, one of them with an account, as
\* the clock advances
NextDeletionRate ==
    \/ completeAuth_find("A", "TwilioPhone", "k2", phoneOfKey("k2"), TRUE)
    \/ completeAuth_create("A")
    \/ completeAuth_link("A")
    \/ \E p \in PhoneNumbers, sent \in BOOLEAN :
          AccountDeletionController_startDeletion("TwilioPhone", Payload(p, ""), 1, sent)
    \/ \E d \in DeletionTickInputs : DeletionTick(d)

SpecDeletionRate == InitDeletion /\ [][NextDeletionRate]_vars

\* the requests with their payload, under the "TwilioPhone" method: what
\* TwilioAuthMethod.completeAuth answers to a payload, approved being the
\* status Twilio's verification check returns for its number and code
completeAuthOk(payload, approved) ==
    /\ payload.phoneNumber # ""
    /\ payload.otp # ""
    /\ \/ \E admin \in ADMIN_PHONE_NUMBERS :
              admin.phoneNumber = payload.phoneNumber /\ admin.otp = payload.otp
       \/ approved

\* req.body of /share/store: the payload goes to completeAuth and to
\* buildConfigFromPayload
ShareController_storeShareWith(ipAddress, payload, shareB, userIdHash, approved) ==
    ShareController_storeShare(ipAddress, "TwilioPhone", payload.phoneNumber, shareB,
                               userIdHash, completeAuthOk(payload, approved),
                               Repeat(<<0>>, 12))

\* req.body of /share/retrieve: the payload goes to completeAuth only
ShareController_retrieveShareWith(ipAddress, payload, userIdHash, approved) ==
    ShareController_retrieveShare(ipAddress, userIdHash, completeAuthOk(payload, approved))

\* req.body of /share/update: the payload goes to completeAuth only
ShareController_updateShareWith(ipAddress, payload, userIdHash, newShareB, approved) ==
    ShareController_updateShare(ipAddress, userIdHash, newShareB,
                                completeAuthOk(payload, approved), Repeat(<<0>>, 12))

\* the payloads of the requests: each number with the code "123456"
LinkPayloadInputs == {[present |-> TRUE, phoneNumber |-> p, otp |-> "123456"] :
                         p \in PhoneNumbers}

NextLink ==
    \/ /\ BagCardinality(share_access_log) < MaxOtpRequests
       /\ \E h \in HashInputs, s \in StoreInputs, p \in LinkPayloadInputs, ok \in BOOLEAN :
             ShareController_storeShareWith("ipA", p, s, h, ok)
    \/ /\ BagCardinality(share_access_log) < MaxOtpRequests
       /\ \E h \in HashInputs, p \in LinkPayloadInputs, ok \in BOOLEAN :
             ShareController_retrieveShareWith("ipA", p, h, ok)
    \/ /\ BagCardinality(share_access_log) < MaxOtpRequests
       /\ \E h \in HashInputs, s \in UpdateInputs, p \in LinkPayloadInputs, ok \in BOOLEAN :
             ShareController_updateShareWith("ipA", p, h, s, ok)

SpecLink == InitCtl /\ [][NextLink]_vars

---------------------------------------------------------------------------
(* The wallet's UMP token, as how-it-works.md describes it: the root       *)
(* primary key encrypted under the XOR of each pair of the three factors.  *)
(* Keys are KeyBits wide.                                                  *)

Keys == 0 .. (2 ^ KeyBits - 1)

\* XOR(a, b), bit by bit
RECURSIVE XOR(_, _)
RECURSIVE XOR_or(_, _)
\* the bitwise or in the place of the exclusive or
XOR_or(a, b) ==
    IF a = 0 /\ b = 0 THEN 0
    ELSE (IF (a % 2) + (b % 2) >= 1 THEN 1 ELSE 0) + 2 * XOR_or(a \div 2, b \div 2)

XOR(a, b) ==
    IF a = 0 /\ b = 0 THEN 0
    ELSE (((a % 2) + (b % 2)) % 2) + 2 * XOR(a \div 2, b \div 2)

\* SHA-256(key)
SHA256(key) == [sha256 |-> key]

\* SymmetricEncrypt(plaintext, key): authenticated encryption under a fresh
\* nonce; the ciphertext opens under the key it was made with and no other
SymmetricEncrypt(plaintext, key, nonce) ==
    [key |-> key, plaintext |-> plaintext, nonce |-> nonce]

\* SymmetricDecrypt(ciphertext, key)
SymmetricDecrypt(ciphertext, key) ==
    IF ciphertext.key = key THEN Ok(ciphertext.plaintext)
    ELSE Err("AuthenticationFailure")

\* the token of a new user: the five ciphertexts and the two lookup hashes
BuildToken(presentationKey, passwordKey, recoveryKey, rootPrimaryKey, rootPrivilegedKey, nonce) ==
    [built |-> TRUE,
     passwordPresentationPrimary |->
         SymmetricEncrypt(rootPrimaryKey, XOR(presentationKey, passwordKey), nonce),
     passwordRecoveryPrimary |->
         SymmetricEncrypt(rootPrimaryKey, XOR(passwordKey, recoveryKey), nonce + 1),
     presentationRecoveryPrimary |->
         SymmetricEncrypt(rootPrimaryKey, XOR(presentationKey, recoveryKey), nonce + 2),
     passwordPrimaryPrivileged |->
         SymmetricEncrypt(rootPrivilegedKey, XOR(passwordKey, rootPrimaryKey), nonce + 3),
     presentationRecoveryPrivileged |->
         SymmetricEncrypt(rootPrivilegedKey, XOR(presentationKey, recoveryKey), nonce + 4),
     presentationHash |-> SHA256(presentationKey),
     recoveryHash |-> SHA256(recoveryKey)]

Modes == {"presentation-key-and-password", "presentation-key-and-recovery-key",
          "recovery-key-and-password"}

\* the modes that hold the recovery key, both given the ciphertext of
\* presentation and recovery
primaryOf_recoveryModesAlike(tok, mode) ==
    IF mode = "presentation-key-and-password" THEN tok.passwordPresentationPrimary
    ELSE tok.presentationRecoveryPrimary

\* the primary ciphertext of an authentication mode
primaryOf(tok, mode) ==
    IF mode = "presentation-key-and-password" THEN tok.passwordPresentationPrimary
    ELSE IF mode = "presentation-key-and-recovery-key" THEN tok.presentationRecoveryPrimary
    ELSE tok.passwordRecoveryPrimary

\* key recovery, steps 3 and 4: the XOR of the two factors opens the
\* ciphertext of the mode
Recover(mode, factorA, factorB, tok) ==
    IF mode \notin Modes THEN Err("UnsupportedMode")
    ELSE SymmetricDecrypt(primaryOf(tok, mode), XOR(factorA, factorB))

tokenRestUnchanged ==
    /\ UNCHANGED <<SERVER_ENCRYPTION_KEY, users, nextUserId, auth_methods,
                   nextAuthMethodId, payments, wallet, shamir_shares, nextShareId,
                   call, result, lastWrite, share_access_log, now, limitResult, response>>
    /\ deletionUnchanged
    /\ devUnchanged

\* the new user flow: random root keys and recovery key, the password key
\* from the password, the presentation key from the WAB
NewUser(presentationKey, passwordKey, recoveryKey, rootPrimaryKey, rootPrivilegedKey, nonce) ==
    /\ ~token.built
    /\ token' = BuildToken(presentationKey, passwordKey, recoveryKey,
                           rootPrimaryKey, rootPrivilegedKey, nonce)
    /\ secrets' = [presentationKey |-> presentationKey, passwordKey |-> passwordKey,
                   recoveryKey |-> recoveryKey, rootPrimaryKey |-> rootPrimaryKey,
                   rootPrivilegedKey |-> rootPrivilegedKey]
    /\ UNCHANGED recovered
    /\ tokenRestUnchanged

\* an authentication with two factors
Authenticate(mode, factorA, factorB) ==
    /\ token.built
    /\ LET r == Recover(mode, factorA, factorB, token) IN
       recovered' = [mode |-> mode, factorA |-> factorA, factorB |-> factorB,
                     ok |-> r.ok,
                     rootPrimaryKey |-> IF r.ok THEN r.value ELSE 0,
                     error |-> IF r.ok THEN "none" ELSE r.error]
    /\ UNCHANGED <<token, secrets>>
    /\ tokenRestUnchanged

\* the keys the wallet's owner may hold; whoever authenticates may try any key
FactorInputs == {1, 2, 3}
RootInputs == {1, 2}
TokenNonceInputs == {0}

NextToken ==
    \/ \E p, w, r \in FactorInputs, P, V \in RootInputs, n \in TokenNonceInputs :
          NewUser(p, w, r, P, V, n)
    \/ \E m \in Modes, a, b \in Keys : Authenticate(m, a, b)

SpecToken == InitAcct /\ [][NextToken]_vars

---------------------------------------------------------------------------
(* The development auth method: DevConsoleAuthMethod keeps the code it     *)
(* printed in the otpStorage of the instance, under the presentation key.  *)

\* req.body.payload of the DevConsole method
DevPayload(identifier, otp) == [identifier |-> identifier, otp |-> otp]

\* 10 * 60 * 1000 milliseconds
OtpLifetime == 10

\* DevConsoleAuthMethod.startAuth on an instance whose otpStorage is
\* storage; otp is the code Math.random() gave, at is Date.now()
DevConsoleAuthMethod_startAuth(storage, presentationKey, payload, otp, at) ==
    IF payload.identifier = ""
    THEN [success |-> FALSE, message |-> "identifier is required.", otpStorage |-> storage]
    ELSE [success |-> TRUE, message |-> "Development OTP sent.",
          otpStorage |-> [storage EXCEPT ![presentationKey] =
                             [present |-> TRUE, otp |-> otp,
                              expiresAt |-> at + OtpLifetime,
                              identifier |-> payload.identifier]]]

\* a variant of completeAuth that leaves the code in place when it matched
DevConsoleAuthMethod_completeAuth_keep(storage, presentationKey, payload, at) ==
    LET storedData == storage[presentationKey] IN
    IF /\ payload.identifier # "" /\ payload.otp # "" /\ storedData.present
       /\ at <= storedData.expiresAt
       /\ storedData.identifier = payload.identifier /\ storedData.otp = payload.otp
    THEN [success |-> TRUE, message |-> "Development authentication successful.",
          otpStorage |-> storage]
    ELSE [success |-> FALSE, message |-> "failed", otpStorage |-> storage]

\* DevConsoleAuthMethod.completeAuth
DevConsoleAuthMethod_completeAuth(storage, presentationKey, payload, at) ==
    LET storedData == storage[presentationKey] IN
    IF payload.identifier = "" \/ payload.otp = ""
    THEN [success |-> FALSE, message |-> "identifier and otp are required.",
          otpStorage |-> storage]
    ELSE IF ~storedData.present
    THEN [success |-> FALSE, message |-> "No OTP found for this session.",
          otpStorage |-> storage]
    ELSE IF at > storedData.expiresAt
    THEN [success |-> FALSE, message |-> "OTP has expired.",
          otpStorage |-> [storage EXCEPT ![presentationKey] = NoOtp]]
    ELSE IF storedData.identifier # payload.identifier
    THEN [success |-> FALSE, message |-> "Identifier does not match.",
          otpStorage |-> storage]
    ELSE IF storedData.otp # payload.otp
    THEN [success |-> FALSE, message |-> "Invalid OTP code.", otpStorage |-> storage]
    ELSE [success |-> TRUE, message |-> "Development authentication successful.",
          otpStorage |-> [storage EXCEPT ![presentationKey] = NoOtp]]

\* console.log of startAuth: the code printed for the key, not used yet
Printed(presentationKey, payload, otp) ==
    [console EXCEPT ![presentationKey] =
        [printed |-> TRUE, otp |-> otp, at |-> now,
         identifier |-> payload.identifier, successes |-> 0]]

\* one more successful completeAuth under the key
Used(presentationKey) == [console EXCEPT ![presentationKey].successes = @ + 1]

AuthAnswer(op, r, presentationKey) ==
    [op |-> op, success |-> r.success, message |-> r.message,
     presentationKey |-> presentationKey, at |-> now]

devRestUnchanged ==
    /\ UNCHANGED <<SERVER_ENCRYPTION_KEY, users, nextUserId, auth_methods,
                   nextAuthMethodId, payments, wallet, shamir_shares, nextShareId,
                   call, result, lastWrite, share_access_log, limitResult, response>>
    /\ deletionUnchanged /\ tokenUnchanged

\* startAuth and completeAuth called on one instance, whose otpStorage is
\* the variable
Dev_startAuth(presentationKey, payload, otp) ==
    /\ LET r == DevConsoleAuthMethod_startAuth(otpStorage, presentationKey, payload, otp, now)
       IN  /\ otpStorage' = r.otpStorage
           /\ console' = IF r.success THEN Printed(presentationKey, payload, otp)
                         ELSE console
           /\ authResult' = AuthAnswer("start", r, presentationKey)
    /\ UNCHANGED now
    /\ devRestUnchanged

Dev_completeAuth(presentationKey, payload) ==
    /\ LET r == DevConsoleAuthMethod_completeAuth(otpStorage, presentationKey, payload, now)
       IN  /\ otpStorage' = r.otpStorage
           /\ console' = IF r.success THEN Used(presentationKey) ELSE console
           /\ authResult' = AuthAnswer("complete", r, presentationKey)
    /\ UNCHANGED now
    /\ devRestUnchanged

\* the clock of the development runs stops after MaxTicks steps
DevTickInputs == {6}
MaxDevNow == MaxTicks * 6

DevTick(d) ==
    /\ now + d <= MaxDevNow
    /\ now' = now + d
    /\ UNCHANGED <<otpStorage, console, authResult>>
    /\ devRestUnchanged

\* what the requests of the development runs carry
DevIdentifiers == {"dev", ""}
DevOtps == {"111111", "222222"}
DevCompleteInputs == {DevPayload(i, o) : i \in {"dev", "other"}, o \in DevOtps \cup {""}}

NextDev ==
    \/ \E k \in PresentationKeys, i \in DevIdentifiers, o \in DevOtps :
          Dev_startAuth(k, DevPayload(i, ""), o)
    \/ \E k \in PresentationKeys, p \in DevCompleteInputs : Dev_completeAuth(k, p)
    \/ \E d \in DevTickInputs : DevTick(d)

SpecDev == InitAcct /\ [][NextDev]_vars

\* AuthController's getAuthMethodInstance("DevConsole"): new
\* DevConsoleAuthMethod(), an instance of its own for every request
AuthController_getAuthMethodInstance == [otpStorage |-> NewOtpStorage]

\* AuthController.startAuth with methodType "DevConsole": the instance the
\* code is stored in is dropped with the request
AuthController_startAuth(presentationKey, payload, otp) ==
    /\ LET authMethod == AuthController_getAuthMethodInstance
           r == DevConsoleAuthMethod_startAuth(authMethod.otpStorage, presentationKey,
                                               payload, otp, now)
       IN  /\ console' = IF r.success THEN Printed(presentationKey, payload, otp)
                         ELSE console
           /\ authResult' = AuthAnswer("start", r, presentationKey)
    /\ UNCHANGED <<otpStorage, now>>
    /\ devRestUnchanged

\* AuthController.completeAuth with methodType "DevConsole", up to the
\* lookup of the user: the verification is asked of a new instance
AuthController_completeAuth(c, presentationKey, payload) ==
    LET authMethod == AuthController_getAuthMethodInstance
        r == DevConsoleAuthMethod_completeAuth(authMethod.otpStorage, presentationKey,
                                               payload, now)
    IN  completeAuth_find(c, "DevConsole", presentationKey, payload.identifier, r.success)

\* /auth/start and /auth/complete with the DevConsole method; the steps of
\* completeAuth after a successful verification are never reached
NextDevAuth ==
    \/ \E k \in PresentationKeys, i \in DevIdentifiers, o \in DevOtps :
          AuthController_startAuth(k, DevPayload(i, ""), o)
    \/ \E c \in Callers, k \in PresentationKeys, p \in DevCompleteInputs :
          AuthController_completeAuth(c, k, p)
    \/ \E d \in DevTickInputs : DevTick(d)

SpecDevAuth == InitAcct /\ [][NextDevAuth]_vars

---------------------------------------------------------------------------
(* Properties of the custody engine *)

\* C1: in every sequence of store, update, delete and user deletion, also
\* with the calls of two callers interleaved, no user owns more than one
\* share
C1_OneSharePerUser ==
    \A u \in UserIds : Cardinality({r \in shamir_shares : r.userId = u}) <= 1

\* a store that passed its existence check and then lost the race for the row
C1_Witness ==
    \E c \in Callers :
        /\ result[c].op = "store"
        /\ result[c].error = "UniqueViolation"
        /\ HasShare(result[c].userId)

\* C2: a store for a user who has a share fails with DuplicateShare at once
\* and leaves the table as it was
C2_StoreOnExistingFails ==
    [][\A u \in UserIds, s \in ShareInputs :
          (HasShare(u) /\ storeShare_check("A", u, s))
          => /\ result'["A"].op = "store"
             /\ result'["A"].userId = u
             /\ result'["A"].error = "DuplicateShare"
             /\ call'["A"].pc = "idle"
             /\ shamir_shares' = shamir_shares]_vars

C2_Witness ==
    /\ result["A"].op = "store"
    /\ result["A"].error = "DuplicateShare"
    /\ lastWrite[result["A"].userId].live
    /\ \E r \in shamir_shares :
          r.userId = result["A"].userId /\ r.id # r.userId

\* C3: an update for a user who has no share fails with NoExistingShare at
\* once and creates no row
C3_UpdateWithoutShareFails ==
    [][\A u \in UserIds, s \in ShareInputs :
          (~HasShare(u) /\ updateShare_check("A", u, s))
          => /\ result'["A"].op = "update"
             /\ result'["A"].userId = u
             /\ result'["A"].error = "NoExistingShare"
             /\ call'["A"].pc = "idle"
             /\ shamir_shares' = shamir_shares]_vars

C3_Witness ==
    /\ result["A"].op = "update"
    /\ result["A"].error = "NoExistingShare"
    /\ ~HasShare(result["A"].userId)
    /\ shamir_shares # {}

\* C4: with the calls run one after another, a share's version is 1 plus
\* the number of updates written since it was stored; a store returns
\* version 1
C4_VersionCountsUpdates ==
    /\ \A r \in shamir_shares :
          /\ lastWrite[r.userId].live
          /\ r.shareVersion = 1 + lastWrite[r.userId].updates
    /\ (result["A"].op = "store" /\ result["A"].found) => result["A"].version = 1

C4_Witness ==
    /\ result["A"].op = "update"
    /\ result["A"].version = 3
    /\ \E r \in shamir_shares :
          /\ r.userId = result["A"].userId
          /\ r.shareVersion = 3
          /\ lastWrite[r.userId].updates = 2

\* C5: a retrieve for a user with a share returns exactly the plaintext
\* handed to the most recent store or update of that user
C5_RetrieveReturnsLastWrite ==
    [][\A u \in UserIds :
          (lastWrite[u].live /\ RetrieveShare("A", u))
          => /\ result'["A"].found
             /\ result'["A"].share = lastWrite[u].share]_vars

\* the same for the shares that are well-formed Unicode strings
WellFormed(share) ==
    \A i \in 1..Len(share) : ~IsHighSurrogate(share[i]) /\ ~IsLowSurrogate(share[i])

RetrieveReturnsLastWellFormedWrite ==
    [][\A u \in UserIds :
          (lastWrite[u].live /\ WellFormed(lastWrite[u].share) /\ RetrieveShare("A", u))
          => /\ result'["A"].found
             /\ result'["A"].share = lastWrite[u].share]_vars

\* C6: a delete never fails and leaves the user without a share; with no
\* share it changes nothing; a retrieve for a user without a share returns
\* null and no error
C6_DeleteIdempotent ==
    [][\A u \in UserIds :
          /\ DeleteShare("A", u)
             => /\ \A r \in shamir_shares' : r.userId # u
                /\ result'["A"].error = ""
                /\ (~HasShare(u) => shamir_shares' = shamir_shares)
          /\ (~HasShare(u) /\ RetrieveShare("A", u))
             => /\ ~result'["A"].found
                /\ result'["A"].error = ""]_vars

\* a share was stored, then deleted, and the retrieve that followed found
\* nothing
C6_Witness ==
    /\ nextShareId > 1
    /\ userIds(users) = UserIds
    /\ shamir_shares = {}
    /\ result["A"].op = "retrieve"
    /\ ~result["A"].found
    /\ result["A"].error = ""

---------------------------------------------------------------------------
(* Properties of the rate limiter *)

\* the failed attempts of the user for the action that isRateLimited counts
\* when the clock shows `at`
attemptCount(log, userId, action, at) ==
    BagCardinality(userAttempts(log, userId, action,
                                at - RATE_LIMITS[action].windowMinutes))

\* the failed attempts from the address for the action that it counts
ipAttemptCount(log, ipAddress, action, at) ==
    BagCardinality(ipAttempts(log, ipAddress, action,
                              at - RATE_LIMITS[action].windowMinutes))

\* C7: whenever a user has at least maxAttempts failed rows for an action
\* within the last windowMinutes, isRateLimited answers limited, with a
\* positive retryAfterMinutes
C7_LimitedAtMaxAttempts ==
    \A u \in UserIds, ip \in IpAddresses, a \in Actions :
        attemptCount(share_access_log, u, a, now) >= RATE_LIMITS[a].maxAttempts
        => LET r == isRateLimited(share_access_log, u, ip, a, now) IN
           r.limited /\ r.retryAfterMinutes > 0

\* the same for the actions whose lockout outlasts their window
LimitedAtMaxAttemptsWhileLockedOut ==
    \A u \in UserIds, ip \in IpAddresses, a \in Actions :
        /\ attemptCount(share_access_log, u, a, now) >= RATE_LIMITS[a].maxAttempts
        /\ RATE_LIMITS[a].lockoutMinutes > RATE_LIMITS[a].windowMinutes
        => LET r == isRateLimited(share_access_log, u, ip, a, now) IN
           r.limited /\ r.retryAfterMinutes > 0

\* the log without its successful rows
failedOnly(log) == [r \in {e \in DOMAIN log : e.success = FALSE} |-> log[r]]

\* C8: the successful rows of the log have no part in any answer of
\* isRateLimited
C8_SuccessesNeverCount ==
    \A u \in UserIds, ip \in IpAddresses, a \in Actions :
        isRateLimited(share_access_log, u, ip, a, now)
            = isRateLimited(failedOnly(share_access_log), u, ip, a, now)

\* user 1 has three store rows in the window, one of them successful, and
\* isRateLimited has answered: nobody is limited
C8_Witness ==
    /\ limitResult.asked
    /\ ~limitResult.limited
    /\ \E r \in DOMAIN share_access_log : r.success
    /\ BagCardinality(userAttempts_anyOutcome(share_access_log, 1, "store", now - 60)) >= 3
    /\ \A u \in UserIds, ip \in IpAddresses, a \in Actions :
          ~isRateLimited(share_access_log, u, ip, a, now).limited

\* C9: whenever an address has at least 2 x maxAttempts failed rows for an
\* action within the window, isRateLimited answers limited for every user
\* asking from that address
C9_LimitedAtTwiceMaxFromAddress ==
    \A u \in UserIds, ip \in IpAddresses, a \in Actions :
        ipAttemptCount(share_access_log, ip, a, now) >= 2 * RATE_LIMITS[a].maxAttempts
        => isRateLimited(share_access_log, u, ip, a, now).limited

\* six failed stores from one address, a user with fewer than three of
\* them, and isRateLimited has answered limited
C9_Witness ==
    /\ limitResult.asked
    /\ limitResult.limited
    /\ limitResult.retryAfterMinutes = RATE_LIMITS["store"].lockoutMinutes
    /\ ipAttemptCount(share_access_log, "ipA", "store", now) >= 6
    /\ \E u \in UserIds :
          /\ attemptCount(share_access_log, u, "store", now) < 3
          /\ \A v \in UserIds :
                isRateLimited(share_access_log, v, "ipA", "store", now).limited

---------------------------------------------------------------------------
(* Properties of the controller *)

\* the step adds to the log exactly one row, which tells the outcome of the
\* request just answered
OutcomeLogged ==
    \E r \in DOMAIN share_access_log' :
        /\ r.userId = response'.userId
        /\ r.action = response'.action
        /\ r.success = (response'.status = 200)
        /\ r.timestamp = now
        /\ share_access_log' = share_access_log (+) SetToBag({r})

\* C10: every store, retrieve or update request in which the handler gets
\* hold of a user row adds a row to the access log that records its outcome
C10_EveryResolvedRequestLogged ==
    [][(Request /\ response'.userId # 0) => OutcomeLogged]_vars

\* the same for the requests that are not answered with status 500
ResolvedRequestLoggedUnlessServerError ==
    [][(Request /\ response'.userId # 0 /\ response'.status # 500)
          => OutcomeLogged]_vars

---------------------------------------------------------------------------
(* Properties of the access log *)

\* the rows of the user in the log
entriesOf(log, userId) == [r \in {e \in DOMAIN log : e.userId = userId} |-> log[r]]

\* C11: in every step that leaves a user in table users, each row that the
\* log holds for that user is still there afterwards, as it was and as many
\* times
C11_LogAppendOnly ==
    [][\A u \in UserIds :
          u \in userIds(users')
          => entriesOf(share_access_log, u) \sqsubseteq entriesOf(share_access_log', u)]_vars

\* user 1 has three rows, the other user is gone, and isRateLimited has
\* answered
C11_Witness ==
    /\ BagCardinality(entriesOf(share_access_log, 1)) >= 3
    /\ 2 \notin userIds(users)
    /\ limitResult.asked

---------------------------------------------------------------------------
(* Properties of the controller: the one-time password *)

\* C12: a request whose completeAuth fails stores no share, replaces none
\* and carries none in its answer; put the other way round, a share is
\* stored, replaced or returned only by a request whose completeAuth
\* succeeded
C12_SharesOnlyAfterOtp ==
    [][(\/ \E r \in shamir_shares' : r \notin shamir_shares
        \/ response'.shareB # <<>>)
       => response'.otp = "ok"]_vars

\* a user has a share and the request just answered was refused for its
\* one-time password
C12_Witness ==
    /\ response.status = 401
    /\ response.userId # 0
    /\ response.action \in {"retrieve", "update"}
    /\ HasShare(response.userId)

---------------------------------------------------------------------------
(* Properties of the custody engine under a missing or malformed key *)

keyAbsent == SERVER_ENCRYPTION_KEY = <<>>
MalformedKeys == {k \in KeyInputs : k # <<>> /\ Len(fromHex(k)) # 32}
keyMalformed == SERVER_ENCRYPTION_KEY \in MalformedKeys
keyError == IF keyAbsent THEN "MissingEncryptionKey" ELSE "InvalidKeyLength"
custodyOps == {"store", "update", "retrieve"}

\* C13, as stated: while the key is absent or does not decode to 32 bytes,
\* every call of storeShare, updateShare and retrieveDecryptedShare fails
\* with MissingEncryptionKey or InvalidKeyLength respectively
C13_KeyErrorOnEveryCall ==
    \A c \in Callers :
        (keyAbsent \/ keyMalformed) /\ result[c].op \in custodyOps
        => result[c].error = keyError

\* C13, amended: while the key is absent or does not decode to 32 bytes, no
\* share row is added or changed, and the calls that get to the cipher fail
\* with MissingEncryptionKey or InvalidKeyLength respectively: storeShare
\* for a user without a share, updateShare and retrieveDecryptedShare for a
\* user with one. The existence check comes first: storeShare for a user
\* with a share fails with DuplicateShare, updateShare for a user without
\* one with NoExistingShare, and retrieveDecryptedShare for a user without
\* one answers null without an error.
C13_KeyErrorAfterExistenceCheck ==
    [][(keyAbsent \/ keyMalformed) /\ SERVER_ENCRYPTION_KEY' = SERVER_ENCRYPTION_KEY
       => /\ \A r \in shamir_shares' : r \in shamir_shares
          /\ \A c \in Callers :
                LET res == result'[c] IN
                /\ res.op = "store" =>
                      res.error = IF res.existed THEN "DuplicateShare" ELSE keyError
                /\ res.op = "update" =>
                      res.error = IF res.existed THEN keyError ELSE "NoExistingShare"
                /\ res.op = "retrieve" =>
                      /\ ~res.found
                      /\ res.error = IF res.existed THEN keyError ELSE ""
                /\ res.op \in custodyOps => res.version = 0]_vars

\* a share stored under a good key, then the key malformed, and an update
\* of that share has failed on the key
C13_Witness ==
    /\ keyMalformed
    /\ result["A"].op = "update"
    /\ result["A"].existed
    /\ result["A"].error = "InvalidKeyLength"
    /\ HasShare(result["A"].userId)

---------------------------------------------------------------------------
(* Properties of encryptShare and decryptShare *)

\* C14: under a valid key, decryptShare of the ciphertext, nonce and tag
\* that encryptShare produced for a share returns exactly that share
C14_RoundTrip ==
    \A sh \in ShareInputs, n \in NonceInputs :
        LET sealed == encryptShareOf(SERVER_ENCRYPTION_KEY, sh, n) IN
        sealed.ok =>
            LET opened == decryptShareOf(SERVER_ENCRYPTION_KEY, sealed.value.encrypted,
                                         sealed.value.nonce, sealed.value.tag)
            IN  opened.ok /\ opened.value = sh

\* what a row of shamir_shares holds after a change to one of its three
\* cipher columns: a ciphertext byte flipped, the nonce of another
\* encryption, the first byte of the tag changed, the tag cut to its first
\* four bytes
otherHexDigit(d) == IF d = "0" THEN "1" ELSE "0"
Tampered(v) ==
    {[v EXCEPT !.encrypted[1] = XorByte(@, 1)]}
    \cup {[v EXCEPT !.nonce = toHex(n)] : n \in {m \in NonceInputs : toHex(m) # v.nonce}}
    \cup {[v EXCEPT !.tag[1] = otherHexDigit(@)]}
    \cup {[v EXCEPT !.tag = SubSeq(@, 1, 8)]}

sealedOf(row) ==
    [encrypted |-> row.shareEncrypted, nonce |-> row.shareNonce, tag |-> row.shareTag]

\* C15: decryptShare fails for every ciphertext, nonce and tag that differ
\* from what encryptShare produced
C15_TamperedNeverDecrypts ==
    \A r \in shamir_shares : \A t \in Tampered(sealedOf(r)) :
        ~decryptShare(SERVER_ENCRYPTION_KEY, t.encrypted, t.nonce, t.tag).ok

---------------------------------------------------------------------------
(* Properties of the account controllers *)

holdsKey(c) == result[c].op = "complete" /\ result[c].success
keyInUse(key) == \E u \in users : u.presentationKey = key

\* C16: the successful completions for one identity all return the same
\* presentation key, that of the user the first of them created, for as
\* long as that user is not deleted: two clients never hold different keys
\* of two users that both exist
C16_OneKeyPerIdentity ==
    \A c, d \in Callers :
        (/\ holdsKey(c) /\ keyInUse(result[c].presentationKey)
         /\ holdsKey(d) /\ keyInUse(result[d].presentationKey))
        => result[c].presentationKey = result[d].presentationKey

\* C17: a /auth/complete whose verification fails ends there, answers
\* without success, and leaves users and auth_methods as they were
C17_FailedVerificationChangesNothing ==
    [][\A c \in Callers, k \in PresentationKeys :
          completeAuth_find(c, AcctMethodType, k, AcctConfig, FALSE)
          => /\ users' = users
             /\ auth_methods' = auth_methods
             /\ call'[c].pc = "idle"
             /\ result'[c] = AuthResult(200, FALSE, Null)]_vars

\* a client was refused while the identity is linked to a user
C17_Witness ==
    /\ result["B"] = AuthResult(200, FALSE, Null)
    /\ findUserByConfig(auth_methods, users, AcctMethodType, AcctConfig) # {}

\* C18: no user is ever the payee of more than one funding transaction or
\* the owner of more than one payment row
C18_OnePaymentPerUser ==
    \A id \in 1..MaxUsers :
        /\ Cardinality({t \in wallet : t.userId = id}) <= 1
        /\ Cardinality({p \in payments : p.userId = id}) <= 1

\* C19: all funding transactions go to one user; every user of SpecFaucet
\* signs up with the identity (AcctMethodType, AcctConfig), so a second
\* payee is a user who signed up with the identity of a user already paid
C19_OnePayeePerIdentity ==
    \A t1, t2 \in wallet : t1.userId = t2.userId

shapeOf(r) ==
    [status |-> r.status, success |-> r.success,
     hasDeletionKey |-> r.deletionKey # NoDeletionKey, message |-> r.message]

\* the table auth_methods of the run in which (methodType, config) has no
\* account
withoutAccount(authRows, methodType, config) ==
    {r \in authRows : ~(r.methodType = methodType /\ r.config = config)}

\* C21: the answer of startDeletion has the same status and shape whether
\* or not an account exists for the identity of the request: the request
\* run on the tables as they are and run on the tables without the account
\* of the identity, whatever the random part of the key and whatever Twilio
\* does, answer alike
C21_StartDeletionHidesExistence ==
    \A m \in MethodTypeInputs, p \in StartPayloadInputs, sent1, sent2 \in BOOLEAN :
        shapeOf(startDeletion(auth_methods, users, rateLimitMap, verifications, now,
                              m, p, 1, sent1).response)
      = shapeOf(startDeletion(withoutAccount(auth_methods, m, buildConfigFromPayload(p)),
                              users, rateLimitMap, verifications, now,
                              m, p, 2, sent2).response)

\* one phone number has an account and the other has none, and the start
\* request for the one with the account was answered and its code sent
C21_Witness ==
    /\ \E p \in PhoneNumbers :
          /\ findUserByConfig(auth_methods, users, "TwilioPhone", p) # {}
          /\ deletionResponse.action = "start" /\ deletionResponse.status = 200
          /\ deletionResponse.config = p
          /\ p \in verifications
    /\ \E q \in PhoneNumbers : findUserByConfig(auth_methods, users, "TwilioPhone", q) = {}

\* the attempts for config that checkRateLimit allowed in the 15 minutes
\* that end with the attempt number i
admittedWithin(config, i) ==
    {j \in 1..i : admitted[config][i] - admitted[config][j] < RATE_LIMIT_WINDOW}

\* C22: for each phone number, no 15-minute period holds more than 3
\* attempts that passed the rate limit
C22_AtMostThreePerQuarterHour ==
    \A config \in PhoneNumbers : \A i \in 1..Len(admitted[config]) :
        Cardinality(admittedWithin(config, i)) <= RATE_LIMIT_MAX_ATTEMPTS

\* the other half of C22: an attempt answered 429 was not admitted and sends
\* no code
RejectedSendsNoOtp ==
    [][(deletionResponse' # deletionResponse /\ deletionResponse'.status = 429)
          => /\ verifications' = verifications
             /\ admitted' = admitted]_vars

\* the factors of the wallet's owner that an authentication mode takes
factorsOf(mode) ==
    IF mode = "presentation-key-and-password"
    THEN <<secrets.presentationKey, secrets.passwordKey>>
    ELSE IF mode = "presentation-key-and-recovery-key"
    THEN <<secrets.presentationKey, secrets.recoveryKey>>
    ELSE <<secrets.recoveryKey, secrets.passwordKey>>

\* C23: for the token built from the owner's factors and root keys, the
\* recovery in each of the three modes with the two factors of the mode
\* succeeds and yields the root primary key the token was built from
C23_EveryModeRecoversRootPrimaryKey ==
    token.built =>
        \A mode \in Modes :
            LET r == Recover(mode, factorsOf(mode)[1], factorsOf(mode)[2], token) IN
            r.ok /\ r.value = secrets.rootPrimaryKey

\* the owner authenticated in the mode of recovery key and password and
\* holds three different factors
C23_Witness ==
    /\ token.built
    /\ Cardinality({secrets.presentationKey, secrets.passwordKey, secrets.recoveryKey}) = 3
    /\ recovered.mode = "recovery-key-and-password"
    /\ recovered.factorA = secrets.recoveryKey /\ recovered.factorB = secrets.passwordKey
    /\ recovered.ok /\ recovered.rootPrimaryKey = secrets.rootPrimaryKey

\* exactly one of the two factors of the last authentication was wrong
oneFactorWrong ==
    LET f == factorsOf(recovered.mode) IN
    (recovered.factorA # f[1]) # (recovered.factorB # f[2])

\* C24: an authentication with one wrong factor fails with
\* AuthenticationFailure, and no authentication returns a key other than
\* the root primary key of the token
C24_WrongFactorFails ==
    (token.built /\ recovered.mode \in Modes) =>
        /\ oneFactorWrong => (~recovered.ok /\ recovered.error = "AuthenticationFailure")
        /\ recovered.ok => recovered.rootPrimaryKey = secrets.rootPrimaryKey

\* an authentication with a wrong presentation key and the right password
\* key failed
C24_Witness ==
    /\ token.built
    /\ recovered.mode = "presentation-key-and-password"
    /\ recovered.factorA # secrets.presentationKey
    /\ recovered.factorB = secrets.passwordKey
    /\ ~recovered.ok /\ recovered.error = "AuthenticationFailure"

\* callers c and d are both inside storeShare for one user who exists, both
\* past an existence check that found no share; d has inserted its row and
\* c is about to insert
storeRaceLostBy(c, d) ==
    /\ c # d
    /\ call[c].pc = "store_insert"
    /\ call[d].pc = "store_reread"
    /\ call[c].userId = call[d].userId
    /\ call[c].userId \in userIds(users)
    /\ HasShare(call[c].userId)

\* C26: of two concurrent stores for a user without a share, the one that
\* inserts second does not succeed and fails with DuplicateShare
C26_SecondStoreFailsWithDuplicateShare ==
    [][\A c, d \in Callers :
          (storeRaceLostBy(c, d) /\ call'[c].pc # "store_insert")
          => /\ result'[c].op = "store"
             /\ ~result'[c].found
             /\ result'[c].error = "DuplicateShare"]_vars

\* the other half of C26: the store that inserts second never succeeds
SecondStoreNeverSucceeds ==
    [][\A c, d \in Callers :
          (storeRaceLostBy(c, d) /\ call'[c].pc # "store_insert")
          => /\ result'[c].op = "store"
             /\ ~result'[c].found
             /\ result'[c].error # ""
             /\ shamir_shares' = shamir_shares]_vars

\* callers c and d are both inside updateShare for one user; d has written
\* its row, c is about to write
updateRaceBetween(c, d) ==
    /\ c # d
    /\ call[c].pc = "update_write"
    /\ call[d].pc = "update_reread"
    /\ call[c].userId = call[d].userId
    /\ HasShare(call[c].userId)

\* C27: when the second of two concurrent updates has written, the stored
\* version is 2 higher than the version the first one found
C27_ConcurrentUpdatesAddTwo ==
    [][\A c, d \in Callers :
          (updateRaceBetween(c, d) /\ call'[c].pc = "update_reread")
          => \A r \in shamir_shares' :
                r.userId = call[c].userId => r.shareVersion = call[d].aux + 2]_vars

\* the other half of C27: the ciphertext, nonce and tag the second update
\* leaves are those of one encryption of its own share
ConcurrentUpdateWritesOneSealedShare ==
    [][\A c, d \in Callers :
          (updateRaceBetween(c, d) /\ call'[c].pc = "update_reread")
          => \A r \in shamir_shares' :
                r.userId = call[c].userId =>
                    \E n \in NonceInputs :
                        LET enc == encryptShareOf(SERVER_ENCRYPTION_KEY, call[c].share, n) IN
                        /\ enc.ok
                        /\ r.shareEncrypted = enc.value.encrypted
                        /\ r.shareNonce = enc.value.nonce
                        /\ r.shareTag = enc.value.tag]_vars

\* C28: a store, retrieve or update request that is answered as rate
\* limited has not got to completeAuth: the limit is checked before the
\* one-time password is verified and used up
C28_LimitedRequestVerifiesNoOtp ==
    (response.action \in custodyOps /\ response.status = 429) => response.otp = "none"

\* the same for retrieve and update alone
LimitedReadOrUpdateVerifiesNoOtp ==
    (response.action \in {"retrieve", "update"} /\ response.status = 429)
        => response.otp = "none"

\* the user row a request for userIdHash finds, or the row a store creates
userOfRequest(userIdHash) ==
    LET found == getUserByUserIdHash(users, userIdHash) IN
    IF found # {} THEN (CHOOSE u \in found : TRUE).id ELSE nextUserId

\* a step of the handler of `action` for the user userId that got to the
\* rate-limit check: every answer from the check on writes a log row, and
\* the only row written before it is the 409 of a store
reachedLimitCheck(action, userId) ==
    /\ BagCardinality(share_access_log') = BagCardinality(share_access_log) + 1
    /\ response'.action = action
    /\ response'.userId = userId
    /\ response'.status # 409

\* C29: a store, retrieve or update request that gets to the rate-limit
\* check while isRateLimited reports limited is answered 429 with the
\* minutes to wait, leaves the table of shares as it is and carries no share
C29_LimitedRequestIsRejected ==
    [][\A action \in custodyOps, h \in HashInputs :
          LET rateLimit == isRateLimited(share_access_log, userOfRequest(h), "ipA",
                                         action, now)
          IN  (rateLimit.limited /\ reachedLimitCheck(action, userOfRequest(h)))
              => /\ response'.status = 429
                 /\ response'.retryAfterMinutes = rateLimit.retryAfterMinutes
                 /\ response'.retryAfterMinutes > 0
                 /\ response'.shareB = <<>>
                 /\ shamir_shares' = shamir_shares]_vars

\* a user with a share asked for it once more than the limit allows, and
\* was told when to try again; the share is still there
C29_Witness ==
    /\ response.action = "retrieve" /\ response.status = 429
    /\ response.retryAfterMinutes > 0
    /\ response.shareB = <<>>
    /\ HasShare(response.userId)
    /\ \E e \in DOMAIN share_access_log :
          e.userId = response.userId /\ e.failureReason = "Rate limited"

\* isRateLimited at the time `at` answers limited because of the failures of
\* the user: at least maxAttempts in the window, and the lockout not over
limitedByFailures(log, userId, action, at) ==
    LET config == RATE_LIMITS[action]
        failedAttempts == userAttempts(log, userId, action, at - config.windowMinutes)
    IN  /\ BagCardinality(failedAttempts) >= config.maxAttempts
        /\ oldestAttempt(failedAttempts).timestamp + config.lockoutMinutes > at

\* the lockout end isRateLimited computes at the time `at`
lockoutEndAt(log, userId, action, at) ==
    LET config == RATE_LIMITS[action]
        failedAttempts == userAttempts(log, userId, action, at - config.windowMinutes)
    IN  oldestAttempt(failedAttempts).timestamp + config.lockoutMinutes

\* C30: if isRateLimited answered limited for a user and an action at a
\* time t0 because of the user's failures, and no row was logged since,
\* then it answers limited at every time before the lockout end it computed
\* at t0
C30_LimitedUntilLockoutEnd ==
    \A u \in UserIds, ip \in IpAddresses, a \in Actions, t0 \in 0..now :
        ( /\ \A e \in DOMAIN share_access_log : e.timestamp <= t0
          /\ limitedByFailures(share_access_log, u, a, t0)
          /\ now < lockoutEndAt(share_access_log, u, a, t0) )
        => isRateLimited(share_access_log, u, ip, a, now).limited


---------------------------------------------------------------------------
\* the failed rows that a question about the user, the address and the
\* action can count
failedFor(log, userId, ipAddress, action) ==
    {e \in DOMAIN log : /\ e.action = action
                        /\ e.success = FALSE
                        /\ (e.userId = userId \/ e.ipAddress = ipAddress)}

\* more than windowMinutes have passed since the last of them
windowPassed(log, userId, ipAddress, action, at) ==
    \A e \in failedFor(log, userId, ipAddress, action) :
        at - e.timestamp > RATE_LIMITS[action].windowMinutes

\* C31: a limit clears by time alone: once more than windowMinutes have
\* passed since the last failed entry of the user, the address and the
\* action, isRateLimited answers limited = false for them.
C31_LimitClearsAfterWindow ==
    \A u \in UserIds, ip \in IpAddresses, a \in Actions :
        windowPassed(share_access_log, u, ip, a, now)
            => ~isRateLimited(share_access_log, u, ip, a, now).limited

\* isRateLimited ran and answered "not limited" while the log holds
\* maxAttempts failed updates of one user, and every failed row is older
\* than its window
C31_Witness ==
    /\ limitResult.asked
    /\ ~limitResult.limited
    /\ \E u \in UserIds :
           BagCardinality(userAttempts(share_access_log, u, "update", 0))
               >= RATE_LIMITS["update"].maxAttempts
    /\ \A u \in UserIds, ip \in IpAddresses, a \in Actions :
           windowPassed(share_access_log, u, ip, a, now)


---------------------------------------------------------------------------
\* the identity (methodType, config) is an auth method linked to the user
linkedTo(rows, userId, methodType, config) ==
    \E r \in rows : r.userId = userId /\ r.methodType = methodType /\ r.config = config

\* C32: retrieveShare and updateShare answer 200 for a user only if the
\* identifier verified by the one-time password, the phone number of the
\* payload, is the config of an auth method linked to that user.
C32_ShareOnlyForLinkedIdentifier ==
    [][\A h \in HashInputs, p \in LinkPayloadInputs, ok \in BOOLEAN :
          ( /\ \/ ShareController_retrieveShareWith("ipA", p, h, ok)
               \/ \E s \in UpdateInputs : ShareController_updateShareWith("ipA", p, h, s, ok)
            /\ response'.status = 200 )
          => linkedTo(auth_methods, response'.userId, "TwilioPhone", p.phoneNumber)]_vars


---------------------------------------------------------------------------
---------------------------------------------------------------------------
\* the answer to a retrieveShare whose userIdHash no user has
unknownUser(r) == r.action = "retrieve" /\ r.userId = 0

\* the answer to a retrieveShare for an existing user whose one-time
\* password was wrong
wrongOtp(r) == r.action = "retrieve" /\ r.userId # 0 /\ r.otp = "failed"

\* C34: a failed retrieveShare does not reveal whether the account exists:
\* the answer for an unknown userIdHash has the status of the answer for
\* an existing user with a wrong one-time password (two requests in a row
\* are compared).
C34_FailedRetrieveHidesExistence ==
    [][(wrongOtp(response) /\ unknownUser(response'))
          => response'.status = response.status]_vars

\* the two answers are the 401 and the 404 of the handler
FailedRetrieveAnswers401Or404 ==
    /\ wrongOtp(response) => response.status = 401
    /\ unknownUser(response) => response.status = 404


---------------------------------------------------------------------------
\* the presentation key a later completion for the identity returns: that
\* of the user the identity is linked to
laterKeys(methodType, config) ==
    {u.presentationKey : u \in findUserByConfig(auth_methods, users, methodType, config)}

\* C35: when first-time completions for one identity with different
\* presentation keys run concurrently, then once they are over the
\* identity is linked to exactly one user and every key returned as
\* success is the key later completions for the identity return.
C35_ConcurrentSignUpsAgree ==
    (AllIdle /\ \E c \in Callers : holdsKey(c))
    => /\ Cardinality(laterKeys(AcctMethodType, AcctConfig)) = 1
       /\ \A c \in Callers :
              holdsKey(c) => result[c].presentationKey \in laterKeys(AcctMethodType, AcctConfig)

\* the identity is linked to one user once a completion succeeded
IdentityLinkedToOneUser ==
    (AllIdle /\ \E c \in Callers : holdsKey(c))
    => Cardinality(laterKeys(AcctMethodType, AcctConfig)) = 1


---------------------------------------------------------------------------
(* Properties of the development auth method *)

\* a code was printed for the key at most OtpLifetime minutes ago and no
\* completeAuth has succeeded with it
codePending(k) ==
    /\ console[k].printed
    /\ console[k].successes = 0
    /\ now - console[k].at <= OtpLifetime

\* C36: with the DevConsole method, a /auth/start followed within 10
\* minutes by a /auth/complete with the same presentation key, the same
\* identifier and the printed code succeeds.
C36_StartThenCompleteSucceeds ==
    [][\A c \in Callers, k \in PresentationKeys :
          ( /\ codePending(k)
            /\ AuthController_completeAuth(c, k, DevPayload(console[k].identifier,
                                                            console[k].otp)) )
          => result'[c].success]_vars

\* the same on one instance of DevConsoleAuthMethod: the code startAuth
\* stored is the code completeAuth reads
OneInstanceStartThenCompleteSucceeds ==
    [][\A k \in PresentationKeys :
          ( /\ codePending(k)
            /\ Dev_completeAuth(k, DevPayload(console[k].identifier, console[k].otp)) )
          => authResult'.success]_vars

\* C37: a DevConsole code is single-use and expires: every printed code
\* yields at most one successful completeAuth, and no completeAuth succeeds
\* more than 10 minutes after the startAuth that printed its code.
C37_OtpSingleUseAndExpires ==
    /\ \A k \in PresentationKeys : console[k].successes <= 1
    /\ (authResult.op = "complete" /\ authResult.success)
           => /\ console[authResult.presentationKey].printed
              /\ authResult.at - console[authResult.presentationKey].at <= OtpLifetime

\* a completeAuth has succeeded with the printed code, and the same code is
\* then refused
C37_Witness ==
    /\ authResult.op = "complete"
    /\ ~authResult.success
    /\ authResult.message = "No OTP found for this session."
    /\ console[authResult.presentationKey].successes = 1


---------------------------------------------------------------------------
\* the deletion keys startDeletion has issued for the identity: one for
\* every attempt checkRateLimit allowed
issuedFor(config) ==
    {deletionKeyOf(admitted[config][i], r) :
        i \in DOMAIN admitted[config], r \in RandomInputs}

\* C38: completeDeletion deletes an account only when the deletionKey it is
\* given was issued by an earlier startDeletion for the same identity.
C38_DeletionOnlyWithIssuedKey ==
    [][\A m \in MethodTypeInputs, k \in DeletionKeyInputs, p \in CompletePayloadInputs :
          ( /\ AccountDeletionController_completeDeletion(m, k, p)
            /\ deletionResponse'.status = 200 )
          => k \in issuedFor(buildConfigFromPayload(p))]_vars

\* what completeDeletion does ask of the key and of the payload: the
\* prefix, and a verification of the phone number that succeeds
DeletionOnlyWithPrefixAndVerification ==
    [][\A m \in MethodTypeInputs, k \in DeletionKeyInputs, p \in CompletePayloadInputs :
          ( /\ AccountDeletionController_completeDeletion(m, k, p)
            /\ deletionResponse'.status = 200 )
          => /\ k.prefix = "deletion_"
             /\ completeAuth(verifications, p).success]_vars


---------------------------------------------------------------------------
\* C39: unlinkMethod removes an auth method only when that method is linked
\* to the user of the presented presentation key: the row it deletes is
\* linked to that user when it is deleted, never to another user or to no
\* user.
C39_UnlinkOnlyOwnMethod ==
    [][\A c \in Callers :
          unlinkMethod_delete(c)
          => \A r \in auth_methods \ auth_methods' : r.userId = call[c].userId]_vars

\* when the handler reads the method it is linked to the user of the key,
\* and a rejected request leaves auth_methods as it was
UnlinkChecksOwnerAndRejectionChangesNothing ==
    [][\A c \in Callers, k \in PresentationKeys, id \in 0..MaxUsers :
          unlinkMethod_check(c, k, id)
          => /\ auth_methods' = auth_methods
             /\ call'[c].pc = "unlink_delete"
                   => \E r \in auth_methods, u \in users :
                         /\ r.id = id /\ u.presentationKey = k /\ r.userId = u.id]_vars

=============================================================================
